---- MODULE Spec2Model ----
(***************************************************************************)
(* Model of the clawwork inscription engine: the PID lock file             *)
(* (internal/miner/lock.go) and the run loop (internal/miner/loop.go).     *)
(***************************************************************************)
EXTENDS Integers, Sequences, FiniteSets, TLC

\* ------------------------------------------------------------------------
\* Strings as sequences of one-character strings (lock file content)
\* ------------------------------------------------------------------------

Digits == <<"0", "1", "2", "3", "4", "5", "6", "7", "8", "9">>

IsDigit(c) == \E d \in 1..10 : Digits[d] = c

DigitVal(c) == (CHOOSE d \in 1..10 : Digits[d] = c) - 1

IsSpace(c) == c \in {" ", "\n", "\t"}

\* strconv.Itoa for n >= 0
RECURSIVE Itoa(_)
Itoa(n) == IF n < 10 THEN <<Digits[n + 1]>>
           ELSE Itoa(n \div 10) \o <<Digits[(n % 10) + 1]>>

RECURSIVE TrimLeft(_)
TrimLeft(s) == IF s # <<>> /\ IsSpace(Head(s)) THEN TrimLeft(Tail(s)) ELSE s

RECURSIVE TrimRight(_)
TrimRight(s) == IF s # <<>> /\ IsSpace(s[Len(s)])
                THEN TrimRight(SubSeq(s, 1, Len(s) - 1)) ELSE s

\* strings.TrimSpace
TrimSpace(s) == TrimRight(TrimLeft(s))

RECURSIVE DigitsVal(_)
DigitsVal(s) == IF s = <<>> THEN 0
                ELSE 10 * DigitsVal(SubSeq(s, 1, Len(s) - 1)) + DigitVal(s[Len(s)])

\* strconv.Atoi: optional sign, then one or more decimal digits
Atoi(s) ==
  LET signed == s # <<>> /\ Head(s) \in {"+", "-"}
      body   == IF signed THEN Tail(s) ELSE s
      ok     == body # <<>> /\ \A k \in 1..Len(body) : IsDigit(body[k])
  IN  IF ~ok THEN [ok |-> FALSE, val |-> 0]
      ELSE [ok |-> TRUE,
            val |-> IF signed /\ Head(s) = "-" THEN 0 - DigitsVal(body)
                    ELSE DigitsVal(body)]

\* ------------------------------------------------------------------------
\* Processes and the lock file
\* ------------------------------------------------------------------------

\* the two engine processes that contend for one state directory
Procs == {1, 2}

\* os.Getpid() of each process
Pid(p) == IF p = 1 THEN 7 ELSE 12

\* the PID of a process that is not one of the two contenders
ForeignPid == 30

\* a PID that no running process has
DeadPid == 41

\* the lock file is absent (<<>>) or present with a content (<<content>>)
NoFile == <<>>

FileOf(content) == <<content>>

\* lock file contents found on disk before any contender has run
InitialLockFiles ==
  { NoFile,
    FileOf(<<>>),
    FileOf(<<"x">>),
    FileOf(Itoa(ForeignPid)),
    FileOf(<<" ">> \o Itoa(ForeignPid) \o <<"\n">>),
    FileOf(<<"+">> \o Itoa(ForeignPid)),
    FileOf(Itoa(ForeignPid) \o <<"x">>),
    FileOf(Itoa(DeadPid)) }

VARIABLES
  lockFile,   \* content of <config dir>/mine.lock
  alive,      \* set of PIDs of running processes
  lpc,        \* position of each contender inside AcquireLock
  ldata       \* what each contender read from the lock file

lockVars == <<lockFile, alive, lpc, ldata>>

\* processAlive: signal 0 can be delivered to the PID
processAlive(pid) == pid \in alive

\* the test of lock.go:22 without the strings.TrimSpace of lock.go:21
OwnerAliveUntrimmed(content) ==
  LET r == Atoi(content) IN r.ok /\ processAlive(r.val)

\* the test of lock.go:22 on the bytes that were read
OwnerAlive(content) ==
  LET r == Atoi(TrimSpace(content)) IN r.ok /\ processAlive(r.val)

\* AcquireLock run without interruption on lock file f by the process with
\* PID pid: the error flag and the lock file it leaves behind
AcquireLockResult(f, pid) ==
  IF f # NoFile /\ OwnerAlive(f[1])
  THEN [err |-> TRUE, file |-> f]
  ELSE [err |-> FALSE, file |-> FileOf(Itoa(pid))]

\* a release that empties the lock file instead of removing it
ReleaseResultTruncated(f) == FileOf(<<>>)

\* the release function returned by AcquireLock
ReleaseResult(f) == NoFile

\* ------------------------------------------------------------------------
\* AcquireLock step by step, two contenders (lock.go:16-40)
\* ------------------------------------------------------------------------

\* lock.go:20  os.ReadFile(lockPath)
LockRead(p) ==
  /\ lpc[p] = "start"
  /\ IF lockFile = NoFile
     THEN /\ lpc' = [lpc EXCEPT ![p] = "write"]
          /\ UNCHANGED ldata
     ELSE /\ lpc' = [lpc EXCEPT ![p] = "check"]
          /\ ldata' = [ldata EXCEPT ![p] = lockFile[1]]
  /\ UNCHANGED <<lockFile, alive>>

\* lock.go:21-26  parse the PID and test the owner
LockCheck(p) ==
  /\ lpc[p] = "check"
  /\ lpc' = [lpc EXCEPT ![p] = IF OwnerAlive(ldata[p]) THEN "failed" ELSE "remove"]
  /\ UNCHANGED <<lockFile, alive, ldata>>

\* lock.go:28  os.Remove(lockPath) of the stale file
LockRemove(p) ==
  /\ lpc[p] = "remove"
  /\ lockFile' = NoFile
  /\ lpc' = [lpc EXCEPT ![p] = "write"]
  /\ UNCHANGED <<alive, ldata>>

\* lock.go:32-39  write our PID and return the release function
LockWrite(p) ==
  /\ lpc[p] = "write"
  /\ lockFile' = FileOf(Itoa(Pid(p)))
  /\ lpc' = [lpc EXCEPT ![p] = "held"]
  /\ UNCHANGED <<alive, ldata>>

\* lock.go:39  the release function: os.Remove(lockPath)
LockRelease(p) ==
  /\ lpc[p] = "held"
  /\ lockFile' = ReleaseResult(lockFile)
  /\ lpc' = [lpc EXCEPT ![p] = "released"]
  /\ UNCHANGED <<alive, ldata>>

\* the process ends (crash or exit) without running its release function
ProcExit(p) ==
  /\ lpc[p] # "dead"
  /\ alive' = alive \ {Pid(p)}
  /\ lpc' = [lpc EXCEPT ![p] = "dead"]
  /\ UNCHANGED <<lockFile, ldata>>

\* the process that owns ForeignPid ends
ForeignExit ==
  /\ ForeignPid \in alive
  /\ alive' = alive \ {ForeignPid}
  /\ UNCHANGED <<lockFile, lpc, ldata>>

\* AcquireLock as one uninterrupted call (lock.go:16-40)
AcquireLock(p) ==
  /\ lpc[p] = "start"
  /\ LET r == AcquireLockResult(lockFile, Pid(p)) IN
       /\ lockFile' = r.file
       /\ lpc' = [lpc EXCEPT ![p] = IF r.err THEN "failed" ELSE "held"]
  /\ UNCHANGED <<alive, ldata>>

\* ------------------------------------------------------------------------
\* The engine: constants, responses, pure helpers (loop.go, types.go)
\* ------------------------------------------------------------------------

\* bounds of the explored runs: consecutive failed cycles (long and short
\* runs), successful submissions, counted challenge failures
MaxFails == 8

ShortFails == 1

MaxSuccess == 1

MaxChallengeFails == 1

\* consecutive cycles ending in an unhandled server error, in the long runs
MaxUnhandled == 3

\* loop.go:16-22
defaultCooldown == 1800

maxChallengeRetries == 5

maxLLMRetries == 3

llmRetryDelay == 2

maxNetworkBackoff == 300

initialBackoff == 5

pausePoll == 1

\* the wall clock at startup, in seconds
Now == 10000

\* Go's "" for strings that are only compared, <<>> for a nil pointer
Nil == <<>>

Ptr(x) == <<x>>

Challenges == { [ID |-> "c1", Prompt |-> "p1", ExpiresIn |-> 300],
                [ID |-> "c2", Prompt |-> "p2", ExpiresIn |-> 300] }

OptChallenge == {Nil} \cup {Ptr(c) : c \in Challenges}

FatalCodes == {"NOT_CLAIMED", "WALLET_REQUIRED", "AGENT_BANNED", "INVALID_API_KEY",
               "REGISTRATION_DISABLED", "ALREADY_MINING", "UPGRADE_REQUIRED"}

RateCodes == {"RATE_LIMITED", "DAILY_LIMIT_REACHED"}

ChallengeCodes == {"CHALLENGE_REQUIRED", "CHALLENGE_FAILED", "CHALLENGE_EXPIRED",
                   "CHALLENGE_INVALID", "CHALLENGE_USED", "CHALLENGE_UNAVAILABLE"}

\* an error code the client has no handling for
UnknownCode == "SERVER_BUSY"

\* api.InscribeResponse, the fields the engine reads
BlankResponse ==
  [Error |-> "", Message |-> "", Challenge |-> Nil, NextChallenge |-> Nil,
   RetryAfter |-> 0, IDStatus |-> "", Hit |-> FALSE, CWEarned |-> 0,
   TrustScore |-> 0, SessionID |-> ""]

\* types.go:127-134
IsChallenge(r) == r.Error \in ChallengeCodes

\* types.go:137-142
GetChallenge(r) == IF r.Challenge # Nil THEN r.Challenge ELSE r.NextChallenge

\* the fatal codes of errors.go:32-39, without the two session codes
IsFatalWithoutSessionCodes(r) ==
  r.Error \in {"NOT_CLAIMED", "WALLET_REQUIRED", "AGENT_BANNED", "INVALID_API_KEY",
               "REGISTRATION_DISABLED"}

\* types.go:145-153
IsFatal(r) == r.Error \in FatalCodes

\* types.go:156-158
IsRateLimited(r) == r.Error \in RateCodes

\* Go error values: nil, or the text of the error as a sequence of parts
NilErr == <<>>

\* strings.Contains on an error text, for a substring that is one whole part
Contains(msg, sub) == \E k \in 1..Len(msg) : msg[k] = sub

\* loop.go:485-514
handleFatalError(r) ==
  CASE r.Error = "NOT_CLAIMED"      -> <<"agent not claimed">>
    [] r.Error = "WALLET_REQUIRED"  -> <<"wallet required">>
    [] r.Error = "AGENT_BANNED"     -> <<"agent banned">>
    [] r.Error = "INVALID_API_KEY"  -> <<"invalid API key">>
    [] r.Error = "ALREADY_MINING"   -> <<"already active in another session">>
    [] r.Error = "UPGRADE_REQUIRED" -> <<"upgrade required">>
    [] OTHER -> <<"fatal error: ", r.Error, " - ", r.Message>>

\* isFatalSessionError without the exact match of UPGRADE_REQUIRED
isFatalSessionErrorNoUpgrade(err) ==
  \/ err = <<"ALREADY_MINING">>
  \/ Contains(err, "agent not claimed")
  \/ Contains(err, "agent banned")

\* loop.go:290-295
isFatalSessionError(err) ==
  \/ err = <<"ALREADY_MINING">>
  \/ err = <<"UPGRADE_REQUIRED">>
  \/ Contains(err, "agent not claimed")
  \/ Contains(err, "agent banned")

\* loop.go:540-545
minDuration(a, b) == IF a < b THEN a ELSE b

\* an update that keeps the reward of the last submission only
StateUpdateLastReward(s, r) ==
  [s EXCEPT !.TotalInscriptions = @ + 1,
            !.TotalCWEarned = r.CWEarned,
            !.TotalHits = IF r.Hit THEN @ + 1 ELSE @,
            !.ChallengesPassed = @ + 1,
            !.LastMineAt = Now,
            !.LastChallenge = IF r.NextChallenge # Nil THEN r.NextChallenge ELSE @]

\* display.go:203-215
StateUpdate(s, r) ==
  [s EXCEPT !.TotalInscriptions = @ + 1,
            !.TotalCWEarned = @ + r.CWEarned,
            !.TotalHits = IF r.Hit THEN @ + 1 ELSE @,
            !.ChallengesPassed = @ + 1,
            !.LastMineAt = Now,
            !.LastChallenge = IF r.NextChallenge # Nil THEN r.NextChallenge ELSE @]

\* display.go:218-220
RecordChallengeFail(s) == [s EXCEPT !.ChallengesFailed = @ + 1]

\* display.go:170-180, the state of a first run
ZeroState ==
  [LastChallenge |-> Nil, TotalInscriptions |-> 0, TotalCWEarned |-> 0,
   TotalHits |-> 0, ChallengesPassed |-> 0, ChallengesFailed |-> 0,
   LastTrustScore |-> 0, LastMineAt |-> 0]

\* ------------------------------------------------------------------------
\* The state file: encoding/json as State.Save and LoadState use it
\* ------------------------------------------------------------------------

\* JSON values: a number and a timestamp are kept as their text, an object as
\* a function from its keys
JNum(n) == [t |-> "num", v |-> Itoa(n)]

JText(x) == [t |-> "str", v |-> x]

JTime(x) == [t |-> "time", v |-> Itoa(x)]

JObj(o) == [t |-> "obj", v |-> o]

JNull == [t |-> "null", v |-> <<>>]

\* types.go:65-69  a Challenge as a JSON object
MarshalChallenge(c) ==
  [k \in {"id", "prompt", "expires_in"} |->
     CASE k = "id" -> JText(c.ID)
       [] k = "prompt" -> JText(c.Prompt)
       [] OTHER -> JNum(c.ExpiresIn)]

\* the keys json.Marshal writes for a State: omitempty drops a nil challenge
\* and a zero trust score, and has no effect on the time.Time field
MarshalKeys(s) ==
  {"total_inscriptions", "total_cw_earned", "total_hits", "challenges_passed",
   "challenges_failed", "last_mine_at"}
  \cup (IF s.LastChallenge # Nil THEN {"last_challenge"} ELSE {})
  \cup (IF s.LastTrustScore # 0 THEN {"last_trust_score"} ELSE {})

\* display.go:170-180, 194-196  json.MarshalIndent of a State
Marshal(s) ==
  [k \in MarshalKeys(s) |->
     CASE k = "last_challenge" -> JObj(MarshalChallenge(s.LastChallenge[1]))
       [] k = "total_inscriptions" -> JNum(s.TotalInscriptions)
       [] k = "total_cw_earned" -> JNum(s.TotalCWEarned)
       [] k = "total_hits" -> JNum(s.TotalHits)
       [] k = "challenges_passed" -> JNum(s.ChallengesPassed)
       [] k = "challenges_failed" -> JNum(s.ChallengesFailed)
       [] k = "last_trust_score" -> JNum(s.LastTrustScore)
       [] OTHER -> JTime(s.LastMineAt)]

\* the content of the state file: a JSON document, or text that is not JSON
Document(o) == [valid |-> TRUE, obj |-> o]

NotJSON == [valid |-> FALSE, obj |-> <<>>]

\* a Save that leaves the trust score out
SaveResultWithoutTrust(s) == FileOf(Document(Marshal([s EXCEPT !.LastTrustScore = 0])))

\* display.go:194-200  the file State.Save writes
SaveResult(s) == FileOf(Document(Marshal(s)))

\* json.Unmarshal into an int field: a value of another type, or a number
\* that is no integer, leaves the field as it is
IntField(o, k, old) ==
  IF k \in DOMAIN o /\ o[k].t = "num" /\ Atoi(o[k].v).ok THEN Atoi(o[k].v).val ELSE old

\* json.Unmarshal into a string field
TextField(o, k, old) ==
  IF k \in DOMAIN o /\ o[k].t = "str" THEN o[k].v ELSE old

\* json.Unmarshal into a time.Time field, from a timestamp
TimeField(o, k, old) ==
  IF k \in DOMAIN o /\ o[k].t = "time" THEN DigitsVal(o[k].v) ELSE old

ZeroChallenge == [ID |-> "", Prompt |-> "", ExpiresIn |-> 0]

UnmarshalChallenge(o, c) ==
  [ID |-> TextField(o, "id", c.ID), Prompt |-> TextField(o, "prompt", c.Prompt),
   ExpiresIn |-> IntField(o, "expires_in", c.ExpiresIn)]

\* json.Unmarshal into the *Challenge field: null sets nil; any other value
\* allocates a Challenge when the pointer is nil, and fills it from an object
ChallengeField(o, k, old) ==
  IF k \notin DOMAIN o THEN old
  ELSE IF o[k].t = "null" THEN Nil
  ELSE LET c == IF old = Nil THEN ZeroChallenge ELSE old[1]
       IN  Ptr(IF o[k].t = "obj" THEN UnmarshalChallenge(o[k].v, c) ELSE c)

\* json.Unmarshal of a JSON object into a State
Unmarshal(o, s) ==
  [LastChallenge     |-> ChallengeField(o, "last_challenge", s.LastChallenge),
   TotalInscriptions |-> IntField(o, "total_inscriptions", s.TotalInscriptions),
   TotalCWEarned     |-> IntField(o, "total_cw_earned", s.TotalCWEarned),
   TotalHits         |-> IntField(o, "total_hits", s.TotalHits),
   ChallengesPassed  |-> IntField(o, "challenges_passed", s.ChallengesPassed),
   ChallengesFailed  |-> IntField(o, "challenges_failed", s.ChallengesFailed),
   LastTrustScore    |-> IntField(o, "last_trust_score", s.LastTrustScore),
   LastMineAt        |-> TimeField(o, "last_mine_at", s.LastMineAt)]

\* display.go:183-191  LoadState: a file that cannot be read gives the fresh
\* state, text that is not JSON leaves the fresh state untouched, and the
\* error of json.Unmarshal is dropped
LoadState(f) ==
  IF f = NoFile THEN ZeroState
  ELSE IF ~f[1].valid THEN ZeroState
  ELSE Unmarshal(f[1].obj, ZeroState)

\* the text the provider returns for a prompt
AnswerFor(prompt) == <<"answer to", prompt>>

\* ------------------------------------------------------------------------
\* The engine: state
\* ------------------------------------------------------------------------

TokenIDs == {25, 26}

\* ------------------------------------------------------------------------
\* The filesystem tool (tools.FilesystemTool): paths as strings, the files
\* and directories of the machine, one call of the tool at a time
\* ------------------------------------------------------------------------

\* part_001:14
maxReadSize == 262144

\* part_001:15
maxWriteSize == 1048576

\* part_001:19-24
blockedPrefixes ==
  << <<"/", "b", "i", "n">>, <<"/", "s", "b", "i", "n">>, <<"/", "u", "s", "r", "/", "b", "i", "n">>, <<"/", "u", "s", "r", "/", "s", "b", "i", "n">>,
     <<"/", "e", "t", "c">>, <<"/", "l", "i", "b">>, <<"/", "l", "i", "b", "6", "4">>,
     <<"/", "S", "y", "s", "t", "e", "m">>, <<"/", "L", "i", "b", "r", "a", "r", "y", "/", "S", "y", "s", "t", "e", "m">>, <<"/", "p", "r", "i", "v", "a", "t", "e", "/", "e", "t", "c">>,
     <<"/", "W", "i", "n", "d", "o", "w", "s">>, <<"C", ":", "\\", "W", "i", "n", "d", "o", "w", "s">> >>

\* strings.HasPrefix
HasPrefix(s, p) == Len(s) >= Len(p) /\ SubSeq(s, 1, Len(p)) = p

\* the elements of a path: the texts between its separators
RECURSIVE SplitPath(_, _)
SplitPath(s, cur) ==
  IF s = <<>> THEN <<cur>>
  ELSE IF Head(s) = "/" THEN <<cur>> \o SplitPath(Tail(s), <<>>)
  ELSE SplitPath(Tail(s), Append(cur, Head(s)))

\* filepath.Clean on the elements of a rooted path: empty elements and "."
\* are dropped, ".." drops the element before it and is dropped at the root
RECURSIVE CleanElems(_, _)
CleanElems(elems, acc) ==
  IF elems = <<>> THEN acc
  ELSE LET x == Head(elems) IN
       IF x = <<>> \/ x = <<".">> THEN CleanElems(Tail(elems), acc)
       ELSE IF x = <<".", ".">>
       THEN CleanElems(Tail(elems), IF acc = <<>> THEN acc ELSE SubSeq(acc, 1, Len(acc) - 1))
       ELSE CleanElems(Tail(elems), Append(acc, x))

\* the rooted path with the given elements, as text
RECURSIVE JoinPath(_)
JoinPath(elems) ==
  IF elems = <<>> THEN <<>> ELSE <<"/">> \o Head(elems) \o JoinPath(Tail(elems))

\* os.Getwd of the process
Cwd == <<"/", "w">>

\* the elements of filepath.Abs(path): a relative path is joined to the
\* working directory, and the result is cleaned
Elems(path) ==
  CleanElems(SplitPath(IF HasPrefix(path, <<"/">>) THEN path ELSE Cwd \o <<"/">> \o path, <<>>),
             <<>>)

\* filepath.Abs
Abs(path) == IF Elems(path) = <<>> THEN <<"/">> ELSE JoinPath(Elems(path))

\* a check of the path as it was given
isBlockedPathAsGiven(path) ==
  \E k \in 1..Len(blockedPrefixes) : HasPrefix(path, blockedPrefixes[k])

\* part_001:26-37
isBlockedPath(path) ==
  \E k \in 1..Len(blockedPrefixes) : HasPrefix(Abs(path), blockedPrefixes[k])

\* the content of a file: its bytes are known by a tag and their number
Content(tag, n) == [tag |-> tag, len |-> n]

NoContent == Content("", 0)

DirNode == [dir |-> TRUE, data |-> NoContent]

FileNode(c) == [dir |-> FALSE, data |-> c]

\* the proper ancestors of a node and the node itself, the root excepted
Chain(k) == { SubSeq(k, 1, n) : n \in 1..Len(k) }

IsUnder(k, top) == Len(k) >= Len(top) /\ SubSeq(k, 1, Len(top)) = top

ParentOf(k) == SubSeq(k, 1, Len(k) - 1)

IsDirAt(f, k) == k \in DOMAIN f /\ f[k].dir

HasChildren(f, k) == \E x \in DOMAIN f : x # k /\ IsUnder(x, k)

\* os.MkdirAll: every missing directory of the chain is created; a file in
\* the chain is an error
MkdirAll(f, k) ==
  IF \E x \in Chain(k) : x \in DOMAIN f /\ ~f[x].dir
  THEN [ok |-> FALSE, fs |-> f]
  ELSE [ok |-> TRUE,
        fs |-> [x \in DOMAIN f \cup Chain(k) |-> IF x \in DOMAIN f THEN f[x] ELSE DirNode]]

\* os.WriteFile: the file is created or truncated and written; its directory
\* must exist, and a directory cannot be written
WriteFile(f, k, c) ==
  IF k = <<>> \/ ~IsDirAt(f, ParentOf(k)) \/ IsDirAt(f, k)
  THEN [ok |-> FALSE, fs |-> f]
  ELSE [ok |-> TRUE,
        fs |-> [x \in DOMAIN f \cup {k} |-> IF x = k THEN FileNode(c) ELSE f[x]]]

\* os.Remove: a file or an empty directory
Remove(f, k) ==
  IF k = <<>> \/ k \notin DOMAIN f \/ HasChildren(f, k)
  THEN [ok |-> FALSE, fs |-> f]
  ELSE [ok |-> TRUE, fs |-> [x \in DOMAIN f \ {k} |-> f[x]]]

\* os.Rename: the node and all below it move; a file replaces a file, a
\* directory replaces an empty directory, nothing moves below itself
Rename(f, s, d) ==
  LET moved == { x \in DOMAIN f : IsUnder(x, s) }
      To(x) == d \o SubSeq(x, Len(s) + 1, Len(x))
      From(y) == s \o SubSeq(y, Len(d) + 1, Len(y))
  IN  IF \/ s = <<>> \/ d = <<>> \/ s \notin DOMAIN f
         \/ ~IsDirAt(f, ParentOf(d))
         \/ (d # s /\ IsUnder(d, s))
         \/ (d \in DOMAIN f /\ d # s /\
               (f[d].dir # f[s].dir \/ HasChildren(f, d)))
      THEN [ok |-> FALSE, fs |-> f]
      ELSE IF d = s THEN [ok |-> TRUE, fs |-> f]
      ELSE [ok |-> TRUE,
            fs |-> [y \in ((DOMAIN f \ moved) \ {d}) \cup { To(x) : x \in moved } |->
                      IF IsUnder(y, d) THEN f[From(y)] ELSE f[y]]]

\* what a call of the tool returns
Err(why) == [kind |-> "error", why |-> why, data |-> NoContent, more |-> FALSE, names |-> {}]

Ok(what) == [kind |-> "ok", why |-> what, data |-> NoContent, more |-> FALSE, names |-> {}]

\* part_001:114-136  the first maxReadSize bytes, and the note that the
\* rest was cut; a Read that returns no byte is an error, the end of an
\* empty file included
fsRead(f, path) ==
  LET k == Elems(path) IN
  IF k \notin DOMAIN f THEN Err("open")
  ELSE IF f[k].dir THEN Err("is a directory")
  ELSE IF f[k].data.len = 0 THEN Err("read")
  ELSE [kind |-> "content", why |-> "",
        data |-> Content(f[k].data.tag, IF f[k].data.len > maxReadSize THEN maxReadSize ELSE f[k].data.len),
        more |-> f[k].data.len > maxReadSize, names |-> {}]

\* part_001:145  filepath.Dir(path) is ".": a relative path of one element
DirIsDot(path) == ~HasPrefix(path, <<"/">>) /\ Len(SplitPath(path, <<>>)) = 1

\* part_001:138-155
fsWrite(f, path, content) ==
  IF isBlockedPath(path) THEN [out |-> Err("not allowed"), fs |-> f]
  ELSE IF content.len > maxWriteSize THEN [out |-> Err("content too large"), fs |-> f]
  ELSE LET made == IF DirIsDot(path) THEN [ok |-> TRUE, fs |-> f]
                   ELSE MkdirAll(f, ParentOf(Elems(path)))
           done == WriteFile(made.fs, Elems(path), content)
       IN  IF ~made.ok THEN [out |-> Err("create parent dirs"), fs |-> made.fs]
           ELSE IF ~done.ok THEN [out |-> Err("write"), fs |-> done.fs]
           ELSE [out |-> Ok("wrote"), fs |-> done.fs]

\* part_001:157-200  the names in the directory, each with its kind
fsList(f, path) ==
  LET k == Elems(path) IN
  IF ~IsDirAt(f, k) THEN Err("readdir")
  ELSE [kind |-> "listing", why |-> "", data |-> NoContent, more |-> FALSE,
        names |-> { <<x[Len(x)], f[x].dir>> : x \in { y \in DOMAIN f : Len(y) = Len(k) + 1
                                                                      /\ IsUnder(y, k) } }]

\* part_001:202-211
fsMkdir(f, path) ==
  IF isBlockedPath(path) THEN [out |-> Err("not allowed"), fs |-> f]
  ELSE LET made == MkdirAll(f, Elems(path)) IN
       IF ~made.ok THEN [out |-> Err("mkdir"), fs |-> made.fs]
       ELSE [out |-> Ok("created"), fs |-> made.fs]

\* part_001:213-229
fsMove(f, src, dest) ==
  IF dest = <<>> THEN [out |-> Err("dest is required"), fs |-> f]
  ELSE IF isBlockedPath(src) \/ isBlockedPath(dest) THEN [out |-> Err("not allowed"), fs |-> f]
  ELSE LET made == MkdirAll(f, ParentOf(Elems(dest)))
           done == Rename(made.fs, Elems(src), Elems(dest))
       IN  IF ~made.ok THEN [out |-> Err("create dest parent"), fs |-> made.fs]
           ELSE IF ~done.ok THEN [out |-> Err("move"), fs |-> done.fs]
           ELSE [out |-> Ok("moved"), fs |-> done.fs]

\* part_001:231-239
fsDelete(f, path) ==
  IF isBlockedPath(path) THEN [out |-> Err("not allowed"), fs |-> f]
  ELSE LET done == Remove(f, Elems(path)) IN
       IF ~done.ok THEN [out |-> Err("delete"), fs |-> done.fs]
       ELSE [out |-> Ok("deleted"), fs |-> done.fs]

\* part_001:241-257  the type and the size of the node
fsInfo(f, path) ==
  LET k == Elems(path) IN
  IF k \notin DOMAIN f THEN Err("stat")
  ELSE [kind |-> "info", why |-> IF f[k].dir THEN "directory" ELSE "file",
        data |-> Content("", f[k].data.len), more |-> FALSE, names |-> {}]

\* part_001:83-110  FilesystemTool.Call on decoded arguments
Call(f, a) ==
  IF a.path = <<>> THEN [out |-> Err("path is required"), fs |-> f]
  ELSE CASE a.operation = "read"   -> [out |-> fsRead(f, a.path), fs |-> f]
         [] a.operation = "write"  -> fsWrite(f, a.path, a.content)
         [] a.operation = "list"   -> [out |-> fsList(f, a.path), fs |-> f]
         [] a.operation = "mkdir"  -> fsMkdir(f, a.path)
         [] a.operation = "move"   -> fsMove(f, a.path, a.dest)
         [] a.operation = "delete" -> fsDelete(f, a.path)
         [] a.operation = "info"   -> [out |-> fsInfo(f, a.path), fs |-> f]
         [] OTHER -> [out |-> Err("unknown operation"), fs |-> f]

\* calls of the tool in one explored run
MaxCalls == 2

\* the machine before the first call: a system directory with a file, the
\* directory of temporary files, the working directory
InitialFiles ==
  LET dirs == { Elems(<<"/", "e", "t", "c">>), Elems(<<"/", "t", "m", "p">>), Elems(<<"/", "w">>) } IN
  [x \in dirs \cup {<<>>, Elems(<<"/", "e", "t", "c", "/", "x">>)} |->
     IF x = Elems(<<"/", "e", "t", "c", "/", "x">>) THEN FileNode(Content("sys", 1)) ELSE DirNode]

\* paths the tool is called with: none, below a system directory, reaching
\* one through ".." or from the working directory, and ordinary ones
PathSamples ==
  { <<>>,
    <<"/", "e", "t", "c", "/", "x">>,
    <<"/", "e", "t", "c">>,
    <<"/", "t", "m", "p", "/", ".", ".", "/", "e", "t", "c", "/", "y">>,
    <<".", ".", "/", "e", "t", "c", "/", "x">>,
    <<"/", "t", "m", "p", "/", "a">>,
    <<"/", "t", "m", "p", "/", "d", "/", "a">>,
    <<"/", "t", "m", "p", "/", "d">>,
    <<"a">> }

\* destinations of a move: none, below a system directory, an ordinary one
DestSamples == { <<>>, <<"/", "e", "t", "c", "/", "z">>, <<"/", "t", "m", "p", "/", "b">> }

\* contents: empty, one byte (two different ones), the largest that a read
\* returns whole, and one byte more than a write takes
ContentSamples ==
  { Content("a", 0), Content("a", 1), Content("b", 1), Content("a", maxReadSize),
    Content("a", maxWriteSize + 1) }

Operations == {"read", "write", "list", "mkdir", "move", "delete", "info"}

NoCall == [operation |-> "", path |-> <<>>, content |-> NoContent, dest |-> <<>>]

BlankFS == [fs |-> InitialFiles, calls |-> 0, args |-> NoCall, out |-> Ok("")]

\* ------------------------------------------------------------------------
\* The chat sessions of the console (web.SessionStore)
\* ------------------------------------------------------------------------

\* chat.go:23
maxSessions == 50

\* the last second of the clock in an explored run
MaxTime == 2

\* chat.go:365  fmt.Sprintf("s_%d", time.Now().Unix()): the id of a session
\* created in second t, one id per second
SessionID(t) == <<"s", "_">> \o Itoa(t)

\* the files of the chats directory: for each session id with a file, the
\* time of its last save (updated_at)
NoChats == [id \in {} |-> 0]

\* chat.go:243-264  NewSessionStore on an empty directory: a fresh session
\* is current and has no file yet; nobody is in a call
BlankChat ==
  [files |-> NoChats,
   current |-> SessionID(0),  \* SessionStore.current.id
   clock |-> 0,               \* time.Now().Unix()
   cpc |-> "idle",            \* position of the caller of Chat: idle, llm, save
   sess |-> SessionID(0),     \* the session Chat took for its exchange
   dpc |-> "idle",            \* position of the caller of DeleteSession: idle, removed
   did |-> SessionID(0),      \* the argument of the DeleteSession in progress
   gone |-> {}]               \* ids whose DeleteSession has returned and that no
                              \* session created since then has taken

VARIABLES
  pc,              \* position of Run
  defers,          \* deferred calls of Run, last registered first
  retval,          \* the error Run returns (NilErr for nil)
  miner,           \* Miner.TokenID, Miner.sessionID
  state,           \* *Miner.State
  stateFile,       \* the file state.json
  networkBackoff,  \* local of Run, seconds
  cancelled,       \* ctx is done
  ctrl,            \* Miner.Ctrl: attached (non-nil), paused, tokenID
  loc,             \* locals of mineOnce and answerChallenge
  resp,            \* the response on which the last call of mineOnce ended
  sleepDur,        \* argument of the sleep in progress, seconds
  g,               \* history of the run, read by the properties only
  lim,             \* limits of the explored run: what the environment may do
  hub,             \* the console's EventHub, its subscribers and the calls in progress
  fsys,            \* the filesystem tool: the files of the machine, its last call
  chat             \* the console's SessionStore, the chats directory, the calls in progress

engineVars == <<pc, defers, retval, miner, state, stateFile, networkBackoff, loc, resp,
                sleepDur, g>>

vars == <<lockFile, alive, lpc, ldata, cancelled, ctrl, lim, hub, fsys, chat, engineVars>>

\* what a step of the environment leaves alone in the engine, the history apart
runVars == <<pc, defers, retval, miner, state, stateFile, networkBackoff, loc, resp, sleepDur>>

BlankRequest == [TokenID |-> 0, SessionID |-> "", ChallengeID |-> "", ChallengeAnswer |-> <<>>]

BlankLoc == [req |-> BlankRequest, i |-> 0, attempt |-> 0, site |-> "", challenge |-> Nil]

BlankHistory ==
  [sessCode |-> "none",      \* error code of the session-start outcome
   sessText |-> <<>>,        \* server text quoted by the session-start outcome
   sessID |-> "",            \* session id carried by the session-start response
   startupSleep |-> 0,       \* seconds of resumed cooldown slept to the end
   submitted |-> FALSE,      \* a submit call was made in this run
   cycleSubmits |-> 0,       \* submit calls of the current cycle
   results |-> <<>>,         \* result events emitted in the current cycle
   consecFail |-> 0,         \* failed cycles since the last cycle that did not fail
   consecTransport |-> 0,    \* transport-error cycles since the last other cycle
   prevUnhandled |-> FALSE,  \* the last cycle that did not fail was an unhandled error
   consecUnhandled |-> 0,    \* unhandled-error cycles since the last other cycle
   releases |-> 0,           \* calls of the lock's release function
   sessionEnds |-> 0,        \* EndSession requests sent
   started |-> FALSE,        \* Run went past the session start (loop.go:75)
   stats |-> 0,              \* calls of DisplayStats
   cancelAt |-> "",          \* where Run was when the context was cancelled
   written |-> [paused |-> FALSE, tokenID |-> 25]]
                             \* per field of the console's control, the value
                             \* of the last completed write, or the initial one

\* the subscribers of the event hub: connections of the console's event stream
Subs == {1, 2}

\* web.NewEventHub, and nobody subscribed yet
BlankHub ==
  [history |-> <<>>,                      \* EventHub.history
   clients |-> {},                        \* EventHub.clients, by subscriber
   buf |-> [c \in Subs |-> <<>>],         \* the events buffered in each channel
   closed |-> [c \in Subs |-> FALSE],     \* the channel was closed
   replay |-> [c \in Subs |-> <<>>],      \* what the replay goroutine has still to send
   sub |-> [c \in Subs |-> "none"],       \* none, open, deleted (unsubscribe running), closed
   pending |-> Nil,                       \* the event of a Publish between its two locked parts
   emitted |-> 0,                         \* calls of Miner.emit so far: the next event's number
   panicked |-> FALSE]                    \* a goroutine panicked: the process is gone

SleepPcs == {"sleep_resume", "sleep_pause", "sleep_llm", "sleep_backoff",
             "sleep_rate", "sleep_unhandled", "sleep_cooldown"}

\* the engine's variables as one record, and the assignment of such a record
Cur ==
  [pc |-> pc, defers |-> defers, retval |-> retval, miner |-> miner, state |-> state,
   stateFile |-> stateFile, networkBackoff |-> networkBackoff, loc |-> loc, resp |-> resp,
   sleepDur |-> sleepDur, g |-> g]

Become(e) ==
  /\ pc' = e.pc
  /\ defers' = e.defers
  /\ retval' = e.retval
  /\ miner' = e.miner
  /\ state' = e.state
  /\ stateFile' = e.stateFile
  /\ networkBackoff' = e.networkBackoff
  /\ loc' = e.loc
  /\ resp' = e.resp
  /\ sleepDur' = e.sleepDur
  /\ g' = e.g

\* a state saved by an earlier run, with a cached challenge or none and a
\* last submission at time t or never
LoadedState(ch, t) == [ZeroState EXCEPT !.LastChallenge = ch, !.LastMineAt = t]

\* the engine before Run, in a run limited by l, with Miner.Ctrl set or nil
EngineInit(l, files, states, attached) ==
  /\ lockFile \in files
  /\ alive = {Pid(1), ForeignPid}
  /\ lpc = [p \in Procs |-> IF p = 1 THEN "start" ELSE "dead"]
  /\ ldata = [p \in Procs |-> <<>>]
  /\ pc = "acquire"
  /\ defers = <<>>
  /\ retval = NilErr
  /\ miner = [TokenID |-> 25, sessionID |-> ""]
  /\ stateFile \in {SaveResult(s) : s \in states}
  /\ state = LoadState(stateFile)
  /\ networkBackoff = 0
  /\ cancelled = FALSE
  /\ ctrl \in {[attached |-> a, paused |-> FALSE, tokenID |-> 25] : a \in attached}
  /\ loc = BlankLoc
  /\ resp = Nil
  /\ sleepDur = 0
  /\ g = BlankHistory
  /\ lim = l
  /\ hub = BlankHub
  /\ fsys = BlankFS
  /\ chat = BlankChat

\* ------------------------------------------------------------------------
\* The engine: control flow of Run and mineOnce between two blocking calls
\* ------------------------------------------------------------------------

\* a return statement of Run: the deferred calls run next
DoReturn(e, err) == [e EXCEPT !.pc = "unwind", !.retval = err, !.loc = BlankLoc]

\* display.go DisplayStats: the final summary is printed
DisplayStats(e) == [e EXCEPT !.g.stats = @ + 1]

\* a sleep that sits out its whole duration
sleepUninterruptible(ctxDone) == TRUE

\* loop.go:529-538  sleep(ctx, d) reports whether the timer ran out before
\* the context was done: a sleep in progress is woken by the cancellation
sleep(ctxDone) == ~ctxDone

\* a backoff that only transport errors grow: other failures sleep the
\* initial delay
BackoffDelayTransportOnly(e, kind) ==
  IF kind = "transport" THEN e.networkBackoff ELSE initialBackoff

\* loop.go:137-138  the delay of the sleep that follows an error of mineOnce,
\* whatever the error was
BackoffDelay(e, kind) == e.networkBackoff

\* mineOnce's error always followed by the backoff
RunMineErrAlwaysBackoff(e, kind, ctxDone) ==
  [e EXCEPT !.pc = "sleep_backoff",
            !.sleepDur = BackoffDelay(e, kind),
            !.loc = BlankLoc,
            !.g.consecFail = @ + 1,
            !.g.consecTransport = IF kind = "transport" THEN @ + 1 ELSE 0,
            !.g.consecUnhandled = 0]

\* loop.go:127-141  mineOnce returned an error; ctxDone is ctx.Err() != nil
RunMineErr(e, kind, ctxDone) ==
  IF ctxDone THEN DoReturn(DisplayStats(e), NilErr)
  ELSE [e EXCEPT !.pc = "sleep_backoff",
                 !.sleepDur = BackoffDelay(e, kind),
                 !.loc = BlankLoc,
                 !.g.consecFail = @ + 1,
                 !.g.consecTransport = IF kind = "transport" THEN @ + 1 ELSE 0,
                 !.g.consecUnhandled = 0]

\* the doubling of loop.go:142 without the ceiling
DoubleBackoffUncapped(b) == b * 2

\* loop.go:142 and loop.go:193
DoubleBackoff(b) == minDuration(b * 2, maxNetworkBackoff)

\* a wait that falls back to the default for retry_after = 0 only
RateLimitWaitZeroOnly(r) == IF r.RetryAfter = 0 THEN defaultCooldown ELSE r.RetryAfter

\* loop.go:156-159
RateLimitWait(r) == IF r.RetryAfter <= 0 THEN defaultCooldown ELSE r.RetryAfter

\* loop.go:209-210  the state after a successful submission
RunSuccessState(s, r) == StateUpdate([s EXCEPT !.LastTrustScore = r.TrustScore], r)

\* every result reported as a plain inscription
ResultEventPlain(r) == "inscription"

\* loop.go:199-204  the type of the event emitted for a successful submission
ResultEvent(r) == IF r.Hit THEN "hit" ELSE "inscription"

\* a comparison with the capitalised status text
IsTakenCapitalised(r) == r.IDStatus = "Taken"

\* loop.go:178  the target was inscribed by another agent
IsTaken(r) == r.IDStatus = "taken"

\* Run on a response without the guard of loop.go:185-195
RunHandleRespUnguarded(e, r) ==
  LET e1 == [e EXCEPT !.networkBackoff = initialBackoff,
                      !.loc = BlankLoc,
                      !.g.consecFail = 0,
                      !.g.consecTransport = 0]
  IN  IF IsFatal(r) THEN DoReturn(e1, handleFatalError(r))
      ELSE IF IsRateLimited(r)
        THEN [e1 EXCEPT !.pc = "sleep_rate", !.sleepDur = RateLimitWait(r),
                        !.g.prevUnhandled = FALSE, !.g.consecUnhandled = 0]
      ELSE IF IsTaken(r) THEN DoReturn(DisplayStats(e1), <<"token is taken">>)
      ELSE [e1 EXCEPT !.state = RunSuccessState(@, r),
                      !.stateFile = SaveResult(RunSuccessState(e1.state, r)),
                      !.pc = "sleep_cooldown", !.sleepDur = defaultCooldown,
                      !.g.results = Append(@, ResultEvent(r)),
                      !.g.prevUnhandled = FALSE, !.g.consecUnhandled = 0]

\* loop.go:146-225  mineOnce returned response r: up to the sleep or the return
RunHandleResp(e, r) ==
  LET e1 == [e EXCEPT !.networkBackoff = initialBackoff,
                      !.loc = BlankLoc,
                      !.g.consecFail = 0,
                      !.g.consecTransport = 0]
  IN  IF IsFatal(r) THEN DoReturn(e1, handleFatalError(r))
      ELSE IF IsRateLimited(r)
        THEN [e1 EXCEPT !.pc = "sleep_rate", !.sleepDur = RateLimitWait(r),
                        !.g.prevUnhandled = FALSE, !.g.consecUnhandled = 0]
      ELSE IF IsTaken(r) THEN DoReturn(DisplayStats(e1), <<"token is taken">>)
      ELSE IF r.Error # ""
        THEN [e1 EXCEPT !.pc = "sleep_unhandled", !.sleepDur = e1.networkBackoff,
                        !.g.prevUnhandled = TRUE, !.g.consecUnhandled = @ + 1]
      ELSE [e1 EXCEPT !.state = RunSuccessState(@, r),
                      !.stateFile = SaveResult(RunSuccessState(e1.state, r)),
                      !.pc = "sleep_cooldown", !.sleepDur = defaultCooldown,
                      !.g.results = Append(@, ResultEvent(r)),
                      !.g.prevUnhandled = FALSE, !.g.consecUnhandled = 0]

\* the retry loop running while i <= maxChallengeRetries
RetryAgainInclusive(r, i) == IsChallenge(r) /\ i <= maxChallengeRetries

\* loop.go:325  the condition of the challenge retry loop
RetryAgain(r, i) == IsChallenge(r) /\ i < maxChallengeRetries

\* a cache that keeps its challenge when the last response brings none
ExhaustedCacheKept(r) ==
  IF GetChallenge(r) # Nil THEN GetChallenge(r) ELSE state.LastChallenge

\* loop.go:360-369  the challenge cached when the retries are used up
ExhaustedCache(r) == GetChallenge(r)

\* loop.go:324-378  mineOnce after a submit call returned response r, with
\* e.loc.i the value of the loop counter
MineAfterResp(e, r, ctxDone) ==
  LET e1 == [e EXCEPT !.resp = Ptr(r)] IN
  IF RetryAgain(r, e.loc.i)
  THEN LET ch == GetChallenge(r) IN
       IF ch = Nil
       THEN RunMineErr([e1 EXCEPT !.state.LastChallenge = Nil], "no_challenge", ctxDone)
       ELSE [e EXCEPT !.state = IF r.Error = "CHALLENGE_FAILED"
                                 THEN RecordChallengeFail(@) ELSE @,
                       !.loc.challenge = ch,
                       !.loc.attempt = 0,
                       !.loc.site = "retry",
                       !.pc = "llm"]
  ELSE IF IsChallenge(r)
  THEN RunMineErr([e1 EXCEPT !.state.LastChallenge = ExhaustedCache(r)], "exhausted", ctxDone)
  ELSE RunHandleResp([e1 EXCEPT !.state.LastChallenge =
                          IF r.NextChallenge # Nil THEN r.NextChallenge ELSE @], r)

\* a cycle that never looks at the cache
HasCachedNever(s) == FALSE

\* loop.go:306  a challenge is cached
HasCached(s) == s.LastChallenge # Nil

\* loop.go:118-124 and loop.go:299-316  adopt the console's token, build the
\* request, and go to the solver or to the submit call
MineStart(e, c) ==
  LET tok == IF c.attached THEN c.tokenID ELSE e.miner.TokenID
      req == [TokenID |-> tok, SessionID |-> e.miner.sessionID,
              ChallengeID |-> "", ChallengeAnswer |-> <<>>]
      e1  == [e EXCEPT !.miner.TokenID = tok,
                       !.resp = Nil,
                       !.g.cycleSubmits = 0,
                       !.g.results = <<>>]
  IN  IF HasCached(e.state)
      THEN [e1 EXCEPT !.pc = "llm",
                      !.loc = [req |-> req, i |-> 0, attempt |-> 0, site |-> "cached",
                               challenge |-> e.state.LastChallenge]]
      ELSE [e1 EXCEPT !.pc = "submit",
                      !.loc = [req |-> req, i |-> 0, attempt |-> 0, site |-> "",
                               challenge |-> Nil]]

\* a resumed cooldown that starts over
ResumeRemainingWhole(s) == defaultCooldown

\* loop.go:80-92  the resumed cooldown: seconds still to wait, from the clock
ResumeRemaining(s) == defaultCooldown - (Now - s.LastMineAt)

\* loop.go:75-95  after the session start: register endSession, resume the
\* cooldown or enter the loop
RunAfterSession(e) ==
  LET e1 == [e EXCEPT !.defers = <<"endSession">> \o @,
                      !.networkBackoff = initialBackoff,
                      !.g.started = TRUE]
  IN  IF e.state.LastMineAt # 0 /\ ResumeRemaining(e.state) > 0
      THEN [e1 EXCEPT !.pc = "sleep_resume", !.sleepDur = ResumeRemaining(e.state)]
      ELSE [e1 EXCEPT !.pc = "loop_top"]

\* loop.go:231-277  startSession on a response, its error result
StartSessionErr(r) ==
  IF r.Error = "ALREADY_MINING" THEN <<"ALREADY_MINING">>
  ELSE IF r.Error = "UPGRADE_REQUIRED" THEN <<"UPGRADE_REQUIRED">>
  ELSE IF IsFatal(r) THEN handleFatalError(r)
  ELSE NilErr

\* loop.go:257-271  startSession on a response that is not fatal
StartSessionOk(e, r) ==
  [e EXCEPT !.miner.sessionID = IF r.SessionID # "" THEN r.SessionID ELSE @,
            !.state.LastChallenge =
               IF r.NextChallenge # Nil THEN r.NextChallenge
               ELSE IF GetChallenge(r) # Nil THEN GetChallenge(r) ELSE @]

\* Run returning on every error of startSession
RunOnSessionErrStrict(e, err) ==
  IF err # NilErr THEN DoReturn(e, err) ELSE RunAfterSession(e)

\* loop.go:66-75  Run on the result of startSession
RunOnSessionErr(e, err) ==
  IF err # NilErr /\ isFatalSessionError(err) THEN DoReturn(e, err)
  ELSE RunAfterSession(e)

\* ------------------------------------------------------------------------
\* The environment: what the server and the provider may answer
\* ------------------------------------------------------------------------

Chal1 == [ID |-> "c1", Prompt |-> "p1", ExpiresIn |-> 300]

Chal2 == [ID |-> "c2", Prompt |-> "p2", ExpiresIn |-> 300]

\* the two challenge fields of a response
ChallengePairs ==
  { <<Nil, Nil>>, <<Ptr(Chal1), Nil>>, <<Ptr(Chal2), Nil>>, <<Nil, Ptr(Chal1)>>,
    <<Nil, Ptr(Chal2)>>, <<Ptr(Chal1), Ptr(Chal2)>> }

\* a transport error of the client (types.go:272-286): the request failed,
\* or the body could not be parsed and is quoted in the error
TransportErrors == { <<"request failed">>, <<"parse response", "agent banned">> }

\* responses to the session-start request; fields startSession never reads
\* keep their zero value
AllSessionResponses ==
  { [BlankResponse EXCEPT !.Error = c] : c \in FatalCodes }
  \cup { [BlankResponse EXCEPT !.Error = "REGISTRATION_DISABLED", !.Message = "agent banned"] }
  \cup { [BlankResponse EXCEPT !.Error = c, !.SessionID = sid,
                               !.Challenge = cp[1], !.NextChallenge = cp[2]] :
           c \in {"", UnknownCode}, sid \in {"", "s1"},
           cp \in { <<Nil, Nil>>, <<Ptr(Chal1), Nil>>, <<Nil, Ptr(Chal2)>>, <<Ptr(Chal1), Ptr(Chal2)>> } }

\* the session-start responses of a run that varies the loop, not the start
PlainSessionResponses ==
  { [BlankResponse EXCEPT !.Error = "ALREADY_MINING"] }
  \cup { [BlankResponse EXCEPT !.SessionID = sid, !.Challenge = ch] :
           sid \in {"", "s1"}, ch \in {Nil, Ptr(Chal1)} }

SessionResponses == IF lim.sessions = "all" THEN AllSessionResponses ELSE PlainSessionResponses

SessionTransportErrors ==
  IF lim.sessions = "all" THEN TransportErrors ELSE {<<"request failed">>}

\* responses to a submit request; fields the loop does not read for the
\* given error code keep their zero value
SubmitResponses(st, l) ==
  { [BlankResponse EXCEPT !.Error = c, !.NextChallenge = n] :
       c \in FatalCodes, n \in {Nil, Ptr(Chal2)} }
  \cup { [BlankResponse EXCEPT !.Error = c, !.RetryAfter = ra, !.NextChallenge = n] :
       c \in RateCodes, ra \in {0 - 1, 0, 60}, n \in {Nil, Ptr(Chal2)} }
  \cup { [BlankResponse EXCEPT !.Error = c, !.Challenge = cp[1], !.NextChallenge = cp[2]] :
       c \in (IF l.challenges THEN {"CHALLENGE_REQUIRED", "CHALLENGE_EXPIRED"} ELSE {})
             \cup (IF l.challenges /\ st.ChallengesFailed < l.chFails
                   THEN {"CHALLENGE_FAILED"} ELSE {}),
       cp \in ChallengePairs }
  \cup (IF g.consecUnhandled < l.unhandled
        THEN { [BlankResponse EXCEPT !.Error = UnknownCode, !.IDStatus = ids,
                                     !.NextChallenge = n] :
                 ids \in {"", "taken"}, n \in {Nil, Ptr(Chal2)} }
        ELSE {})
  \cup { [BlankResponse EXCEPT !.IDStatus = "taken", !.NextChallenge = n] :
       n \in {Nil, Ptr(Chal2)} }
  \cup (IF st.TotalInscriptions < l.successes
        THEN { [BlankResponse EXCEPT !.IDStatus = ids, !.Hit = h, !.CWEarned = w,
                                     !.TrustScore = 85, !.NextChallenge = n] :
                 ids \in {"available"}, h \in BOOLEAN, w \in l.rewards,
                 n \in {Nil, Ptr(Chal1), Ptr(Chal2)} }
        ELSE {})

\* results of Provider.Answer: a text, an error, or an empty text
LLMOutcomes == {"ok", "err", "empty"}

\* ------------------------------------------------------------------------
\* The engine: actions
\* ------------------------------------------------------------------------

EnvUnchanged == UNCHANGED <<alive, ldata, cancelled, ctrl, lim, hub, fsys, chat>>

\* loop.go:59-64  Phase 0
RunAcquireLock ==
  /\ pc = "acquire"
  /\ LET r == AcquireLockResult(lockFile, Pid(1)) IN
       /\ lockFile' = r.file
       /\ lpc' = [lpc EXCEPT ![1] = IF r.err THEN "failed" ELSE "held"]
       /\ Become(IF r.err
                 THEN DoReturn(Cur, <<"another clawwork instance is running">>)
                 ELSE [Cur EXCEPT !.pc = "start_session", !.defers = <<"releaseLock">>])
  /\ EnvUnchanged

\* loop.go:66-92  Phase 1 and 1.5, the session-start request failing in transport
RunStartSessionFail(err) ==
  /\ pc = "start_session"
  /\ Become(RunOnSessionErr([Cur EXCEPT !.g.sessCode = "transport", !.g.sessText = err], err))
  /\ UNCHANGED <<lockFile, lpc>>
  /\ EnvUnchanged

\* loop.go:66-92  Phase 1 and 1.5, the session-start request answered by r
RunStartSession(r) ==
  /\ pc = "start_session"
  /\ ~cancelled
  /\ LET e   == [Cur EXCEPT !.g.sessCode = r.Error, !.g.sessText = <<r.Message>>,
                            !.g.sessID = r.SessionID]
         err == StartSessionErr(r)
     IN  Become(RunOnSessionErr(IF err = NilErr THEN StartSessionOk(e, r) ELSE e, err))
  /\ UNCHANGED <<lockFile, lpc>>
  /\ EnvUnchanged

\* the return of a sleep(ctx, d) that is not inside mineOnce
\* (loop.go:529-538 with loop.go:87, 110, 138, 170, 189, 222)
RunSleepEnd ==
  /\ pc \in SleepPcs \ {"sleep_llm"}
  /\ LET e == [Cur EXCEPT !.sleepDur = 0] IN
       Become(IF ~sleep(cancelled) THEN DoReturn(DisplayStats(e), NilErr)
              ELSE CASE pc = "sleep_pause" -> [e EXCEPT !.pc = "pause_loop"]
                     [] pc \in {"sleep_backoff", "sleep_unhandled"} ->
                          [e EXCEPT !.pc = "loop_top",
                                    !.networkBackoff = DoubleBackoff(@)]
                     [] pc = "sleep_resume" ->
                          [e EXCEPT !.pc = "loop_top", !.g.startupSleep = sleepDur]
                     [] OTHER -> [e EXCEPT !.pc = "loop_top"])
  /\ UNCHANGED <<lockFile, lpc>>
  /\ EnvUnchanged

\* a new cycle may start (bound of the exploration): the run of failed cycles
\* is not at its limit, and the run is followed beyond its last explored
\* success only where the limits say so; a cancelled run is followed to its end
CanStartCycle ==
  \/ cancelled
  \/ /\ g.consecFail < lim.fails
     /\ lim.onward \/ state.TotalInscriptions < lim.successes

\* a loop that never sees the console's pause
PauseIgnored(c) == FALSE

\* loop.go:107  the condition under which the loop starts to wait
PauseEntered(c) == c.attached /\ c.paused

\* loop.go:97-126  top of the loop: cancellation, the first read of IsPaused;
\* without a console the cycle starts at once
RunLoopTop ==
  /\ pc = "loop_top"
  /\ IF cancelled THEN Become(DoReturn(DisplayStats(Cur), NilErr))
     ELSE IF PauseEntered(ctrl) THEN Become([Cur EXCEPT !.pc = "pause_loop"])
     ELSE IF ctrl.attached THEN Become([Cur EXCEPT !.pc = "retarget"])
     ELSE CanStartCycle /\ Become(MineStart(Cur, ctrl))
  /\ UNCHANGED <<lockFile, lpc>>
  /\ EnvUnchanged

\* loop.go:109-116  the pause poll: one evaluation of m.Ctrl.IsPaused()
RunPausePoll ==
  /\ pc = "pause_loop"
  /\ Become(IF ctrl.paused
            THEN [Cur EXCEPT !.pc = "sleep_pause", !.sleepDur = pausePoll]
            ELSE [Cur EXCEPT !.pc = "retarget"])
  /\ UNCHANGED <<lockFile, lpc>>
  /\ EnvUnchanged

\* loop.go:118-126  the read of m.Ctrl.TokenID() and the call of mineOnce
RunRetarget ==
  /\ pc = "retarget"
  /\ CanStartCycle
  /\ Become(MineStart(Cur, ctrl))
  /\ UNCHANGED <<lockFile, lpc>>
  /\ EnvUnchanged

\* a request that takes the console's target again with each answer
AttachAnswerRetargeted(req, ch, answer) ==
  [req EXCEPT !.ChallengeID = ch.ID, !.ChallengeAnswer = answer,
              !.TokenID = IF ctrl.attached THEN ctrl.tokenID ELSE @]

\* loop.go:312-313, 347-348  the answer goes into the request of the cycle
AttachAnswer(req, ch, answer) ==
  [req EXCEPT !.ChallengeID = ch.ID, !.ChallengeAnswer = answer]

\* what Provider.Answer returns for outcome o: an error, or a text that may
\* be empty
ProviderReply(o, prompt) ==
  [err |-> o = "err", answer |-> IF o = "ok" THEN AnswerFor(prompt) ELSE <<>>]

\* an attempt that succeeds whenever the provider reports no error
AttemptSucceedsOnEmpty(rep) == ~rep.err

\* loop.go:401-411  the attempt succeeds: no error and a text that is not empty
AttemptSucceeds(rep) == ~rep.err /\ rep.answer # <<>>

\* loop.go:390-422  one attempt of answerChallenge, with outcome o of the provider
RunSolve(o) ==
  /\ pc = "llm"
  /\ cancelled => o = "err"
  /\ LET ch  == loc.challenge[1]
         rep == ProviderReply(o, ch.Prompt) IN
     Become(IF AttemptSucceeds(rep)
            THEN [Cur EXCEPT !.pc = "submit", !.loc.req = AttachAnswer(@, ch, rep.answer)]
            ELSE IF loc.attempt + 1 < maxLLMRetries
            THEN [Cur EXCEPT !.pc = "sleep_llm", !.sleepDur = llmRetryDelay,
                             !.loc.attempt = @ + 1]
            ELSE RunMineErr(Cur, "llm", cancelled))
  /\ UNCHANGED <<lockFile, lpc>>
  /\ EnvUnchanged

\* loop.go:391-396  the delay between two attempts of answerChallenge
RunSolveDelayEnd ==
  /\ pc = "sleep_llm"
  /\ LET e == [Cur EXCEPT !.sleepDur = 0] IN
       Become(IF ~sleep(cancelled) THEN RunMineErr(e, "llm", cancelled)
              ELSE [e EXCEPT !.pc = "llm"])
  /\ UNCHANGED <<lockFile, lpc>>
  /\ EnvUnchanged

\* the submit call is made: loop.go:319 and loop.go:352
Submitted(e) ==
  [e EXCEPT !.g.submitted = TRUE,
            !.g.cycleSubmits = @ + 1,
            !.loc.i = IF e.loc.site = "retry" THEN @ + 1 ELSE @]

\* loop.go:319-322, 352-355  a submit call failing in transport
RunSubmitFail(err) ==
  /\ pc = "submit"
  /\ Become(RunMineErr([Submitted(Cur) EXCEPT !.resp = Nil], "transport", cancelled))
  /\ UNCHANGED <<lockFile, lpc>>
  /\ EnvUnchanged

\* loop.go:319-378 and 146-225  a submit call answered by r
RunSubmit(r) ==
  /\ pc = "submit"
  /\ ~cancelled
  /\ Become(MineAfterResp(Submitted(Cur), r, cancelled))
  /\ UNCHANGED <<lockFile, lpc>>
  /\ EnvUnchanged

\* an endSession that sends its request on the context of Run
EndSessionOnRunContext(e) ==
  [e EXCEPT !.g.sessionEnds = IF e.miner.sessionID # "" /\ ~cancelled THEN @ + 1 ELSE @]

\* loop.go:279-288  the deferred endSession: the request goes out on a
\* context of its own, and its result is not looked at
EndSession(e) ==
  [e EXCEPT !.g.sessionEnds = IF e.miner.sessionID # "" THEN @ + 1 ELSE @]

\* loop.go:64, 75  Run returns: the deferred calls, last registered first
RunUnwind ==
  /\ pc = "unwind"
  /\ IF defers = <<>>
     THEN /\ Become([Cur EXCEPT !.pc = "done"])
          /\ UNCHANGED <<lockFile, lpc>>
     ELSE IF Head(defers) = "endSession"
     THEN /\ Become([EndSession(Cur) EXCEPT !.defers = Tail(@)])
          /\ UNCHANGED <<lockFile, lpc>>
     ELSE /\ Become([Cur EXCEPT !.defers = Tail(@), !.g.releases = @ + 1])
          /\ lockFile' = ReleaseResult(lockFile)
          /\ lpc' = [lpc EXCEPT ![1] = "released"]
  /\ EnvUnchanged

\* main.go:515-519  the signal handler cancels the context
Cancel ==
  /\ ~cancelled
  /\ pc # "done"
  /\ cancelled' = TRUE
  /\ g' = [g EXCEPT !.cancelAt = IF pc \in SleepPcs THEN pc ELSE "running"]
  /\ UNCHANGED <<lockFile, alive, lpc, ldata, ctrl, lim, hub, fsys, chat, runVars>>

\* a Pause that stores a fresh control value
PauseWriteReset(c) == [c EXCEPT !.paused = TRUE, !.tokenID = 0]

\* control.go:26-30  the write of Pause, made with c.mu held
PauseWrite(c) == [c EXCEPT !.paused = TRUE]

\* control.go:33-37  the write of Resume
ResumeWrite(c) == [c EXCEPT !.paused = FALSE]

\* control.go:47-51  the write of SetTokenID
SetTokenIDWrite(c, id) == [c EXCEPT !.tokenID = id]

\* control.go:26-30 called at signing.go:278-279: lock, write, unlock. The
\* mutex makes the call one step for every reader and writer
Pause ==
  /\ ctrl.attached /\ pc # "done"
  /\ ctrl' = PauseWrite(ctrl)
  /\ g' = [g EXCEPT !.written.paused = TRUE]
  /\ UNCHANGED <<lockFile, alive, lpc, ldata, cancelled, lim, hub, fsys, chat, runVars>>

\* control.go:33-37 called at signing.go:282-283
Resume ==
  /\ ctrl.attached /\ pc # "done"
  /\ ctrl' = ResumeWrite(ctrl)
  /\ g' = [g EXCEPT !.written.paused = FALSE]
  /\ UNCHANGED <<lockFile, alive, lpc, ldata, cancelled, lim, hub, fsys, chat, runVars>>

\* control.go:47-51 called at signing.go:286-287
SetTokenID(id) ==
  /\ ctrl.attached /\ pc # "done"
  /\ ctrl' = SetTokenIDWrite(ctrl, id)
  /\ g' = [g EXCEPT !.written.tokenID = id]
  /\ UNCHANGED <<lockFile, alive, lpc, ldata, cancelled, lim, hub, fsys, chat, runVars>>

\* the steps of Run itself, without the pause poll
RunStep ==
  \/ RunAcquireLock
  \/ \E err \in SessionTransportErrors : RunStartSessionFail(err)
  \/ \E r \in SessionResponses : RunStartSession(r)
  \/ RunSleepEnd
  \/ RunLoopTop
  \/ \E o \in LLMOutcomes : RunSolve(o)
  \/ RunSolveDelayEnd
  \/ \E err \in {<<"request failed">>} : RunSubmitFail(err)
  \/ \E r \in SubmitResponses(state, lim) : RunSubmit(r)
  \/ RunUnwind

\* the run loop with cancellation: challenge errors, short runs
Limits == [fails |-> ShortFails, onward |-> FALSE, successes |-> MaxSuccess,
           chFails |-> MaxChallengeFails, unhandled |-> ShortFails, sessions |-> "plain", challenges |-> TRUE,
     rewards |-> {2500}]

Init == EngineInit(Limits, {NoFile}, {LoadedState(ch, 0) : ch \in {Nil, Ptr(Chal1)}}, {FALSE})

Next == RunStep \/ Cancel

Spec == Init /\ [][Next]_vars

\* startup and every exit path: all lock files, all session-start outcomes,
\* the resumed cooldown, the console's pause; no challenge errors
StartLimits == [fails |-> ShortFails, onward |-> TRUE, successes |-> MaxSuccess, chFails |-> 0,
                unhandled |-> ShortFails, sessions |-> "all", challenges |-> FALSE,
     rewards |-> {2500}]

InitStart ==
  EngineInit(StartLimits, InitialLockFiles,
             {LoadedState(ch, t) : ch \in {Nil, Ptr(Chal1)},
                                   t \in {0, Now - 600, Now - defaultCooldown, Now - 2400}},
             BOOLEAN)

NextStart == RunStep \/ RunPausePoll \/ RunRetarget \/ Cancel \/ Pause \/ Resume

SpecStart == InitStart /\ [][NextStart]_vars

\* long runs of failed cycles: no console, no cancellation, no challenge errors
BackoffLimits == [fails |-> MaxFails, onward |-> TRUE, successes |-> MaxSuccess, chFails |-> 0,
                  unhandled |-> MaxUnhandled, sessions |-> "plain", challenges |-> FALSE,
     rewards |-> {2500}]

InitBackoff ==
  EngineInit(BackoffLimits, {NoFile}, {LoadedState(ch, 0) : ch \in {Nil, Ptr(Chal1)}}, {FALSE})

NextBackoff == RunStep

SpecBackoff == InitBackoff /\ [][NextBackoff]_vars

\* the console retargets the run: challenge errors, no pause, no cancellation
CtrlLimits == [fails |-> ShortFails, onward |-> TRUE, successes |-> MaxSuccess, chFails |-> 0,
               unhandled |-> 0, sessions |-> "plain", challenges |-> TRUE,
     rewards |-> {2500}]

InitCtrl ==
  EngineInit(CtrlLimits, {NoFile}, {LoadedState(ch, 0) : ch \in {Nil, Ptr(Chal1)}}, {TRUE})

NextCtrl == RunStep \/ RunRetarget \/ \E id \in TokenIDs : SetTokenID(id)

SpecCtrl == InitCtrl /\ [][NextCtrl]_vars

\* failed cycles in a row in a run with challenge errors
RetryFails == 3

\* runs of failed cycles with challenge errors, followed beyond a success;
\* no console, no cancellation
RetryLimits == [fails |-> RetryFails, onward |-> TRUE, successes |-> MaxSuccess, chFails |-> 0,
                unhandled |-> 0, sessions |-> "plain", challenges |-> TRUE,
     rewards |-> {2500}]

InitRetry ==
  EngineInit(RetryLimits, {NoFile}, {LoadedState(ch, 0) : ch \in {Nil, Ptr(Chal1)}}, {FALSE})

NextRetry == RunStep

SpecRetry == InitRetry /\ [][NextRetry]_vars

\* long runs of failed cycles of every kind, with unhandled server errors
\* between them and no success
SharedLimits == [fails |-> MaxFails, onward |-> TRUE, successes |-> 0, chFails |-> 0,
                 unhandled |-> ShortFails, sessions |-> "plain", challenges |-> TRUE,
     rewards |-> {2500}]

InitShared ==
  EngineInit(SharedLimits, {NoFile}, {LoadedState(ch, 0) : ch \in {Nil, Ptr(Chal1)}}, {FALSE})

NextShared == RunStep

SpecShared == InitShared /\ [][NextShared]_vars

\* successful submissions of a run whose counters are followed
CountSuccess == 2

\* several successes with different rewards, hits or none, between responses
\* of every other kind but challenge errors, from a state with all counters zero
CountLimits == [fails |-> ShortFails, onward |-> FALSE, successes |-> CountSuccess,
                chFails |-> 0, unhandled |-> ShortFails, sessions |-> "plain",
                challenges |-> FALSE, rewards |-> {0, 2500}]

InitCount ==
  EngineInit(CountLimits, {NoFile}, {LoadedState(ch, 0) : ch \in {Nil, Ptr(Chal1)}}, {FALSE})

NextCount == RunStep

SpecCount == InitCount /\ [][NextCount]_vars

\* the run with a console up to its end: Run's goroutine keeps running, so
\* each of its calls returns and each of its sleeps ends
CleanupLimits == [fails |-> ShortFails, onward |-> TRUE, successes |-> 0, chFails |-> 0,
                  unhandled |-> 0, sessions |-> "plain", challenges |-> FALSE,
     rewards |-> {2500}]

InitCleanup ==
  EngineInit(CleanupLimits, {NoFile}, {LoadedState(ch, 0) : ch \in {Nil, Ptr(Chal1)}}, {TRUE})

EngineStep == RunStep \/ RunPausePoll \/ RunRetarget

NextCleanup == EngineStep \/ Cancel \/ Pause \/ Resume

SpecCleanup == InitCleanup /\ [][NextCleanup]_vars /\ WF_vars(EngineStep)

\* the run under every call of the console
InitConsole ==
  EngineInit(CleanupLimits, {NoFile}, {LoadedState(ch, 0) : ch \in {Nil, Ptr(Chal1)}}, {TRUE})

NextConsole == EngineStep \/ Pause \/ Resume \/ \E id \in TokenIDs : SetTokenID(id)

SpecConsole == InitConsole /\ [][NextConsole]_vars

\* ------------------------------------------------------------------------
\* The event hub: Miner.emit, EventHub.Publish, Subscribe and its consumers
\* ------------------------------------------------------------------------

\* capacity of a subscriber's channel (64 at part_002:62), scaled down
BufferSize == 1

\* maxHistory (200 at part_002:10), scaled down
HistoryKept == 2

\* calls of emit in an explored run
MaxEvents == 3

\* part_002:41-46  the history after an event is stored: the oldest event
\* makes room when the history is full
Store(h, e) == Append(IF Len(h) >= HistoryKept THEN Tail(h) ELSE h, e)

\* a send that always finds room in the channel
DeliverUnbounded(b, e) == Append(b, e)

\* part_002:50-54  the select with a default: the event enters the channel
\* if there is room and is dropped otherwise
Deliver(b, e) == IF Len(b) < BufferSize THEN Append(b, e) ELSE b

HubOnly == UNCHANGED <<lockFile, alive, lpc, ldata, cancelled, ctrl, lim, fsys, chat, engineVars>>

\* loop.go:48-52, main.go:495-497, part_002:36-46  emit: nothing without a
\* listener; with the console, Publish up to the end of its first locked part
Emit ==
  /\ ~hub.panicked /\ hub.pending = Nil /\ hub.emitted < MaxEvents
  /\ LET e == hub.emitted + 1 IN
       hub' = IF ctrl.attached
              THEN [hub EXCEPT !.emitted = e, !.history = Store(@, e), !.pending = Ptr(e)]
              ELSE [hub EXCEPT !.emitted = e]
  /\ HubOnly

\* part_002:48-56  the second locked part of Publish: one send without
\* waiting to every registered channel
PublishSend ==
  /\ ~hub.panicked /\ hub.pending # Nil
  /\ hub' = [hub EXCEPT !.pending = Nil,
                        !.buf = [c \in Subs |-> IF c \in hub.clients
                                                THEN Deliver(hub.buf[c], hub.pending[1])
                                                ELSE hub.buf[c]]]
  /\ HubOnly

\* part_002:61-68  Subscribe: register the channel and copy the history
Subscribe(c) ==
  /\ ~hub.panicked /\ ctrl.attached /\ hub.sub[c] = "none"
  /\ hub' = [hub EXCEPT !.clients = @ \cup {c}, !.replay[c] = hub.history, !.sub[c] = "open"]
  /\ HubOnly

\* part_002:71-75  the replay goroutine sends the next event of the copy: it
\* waits for room, and a send on a closed channel panics
ReplaySend(c) ==
  /\ ~hub.panicked /\ hub.replay[c] # <<>>
  /\ IF hub.closed[c] THEN hub' = [hub EXCEPT !.panicked = TRUE]
     ELSE /\ Len(hub.buf[c]) < BufferSize
          /\ hub' = [hub EXCEPT !.buf[c] = Append(@, Head(hub.replay[c])),
                                !.replay[c] = Tail(@)]
  /\ HubOnly

\* signing.go:222-235  the stream handler takes an event off its channel;
\* part_002:82-85  so does the drain goroutine once unsubscribe runs
Receive(c) ==
  /\ ~hub.panicked /\ hub.sub[c] # "none" /\ hub.buf[c] # <<>>
  /\ hub' = [hub EXCEPT !.buf[c] = Tail(@)]
  /\ HubOnly

\* part_002:77-80  unsubscribe, its locked part: the channel leaves the set
UnsubscribeDelete(c) ==
  /\ ~hub.panicked /\ hub.sub[c] = "open"
  /\ hub' = [hub EXCEPT !.clients = @ \ {c}, !.sub[c] = "deleted"]
  /\ HubOnly

\* part_002:86  unsubscribe closes the channel
UnsubscribeClose(c) ==
  /\ ~hub.panicked /\ hub.sub[c] = "deleted"
  /\ hub' = [hub EXCEPT !.closed[c] = TRUE, !.sub[c] = "closed"]
  /\ HubOnly

\* the hub by itself, with and without the console attached
InitHub ==
  /\ lockFile = NoFile
  /\ alive = {Pid(1)}
  /\ lpc = [p \in Procs |-> IF p = 1 THEN "start" ELSE "dead"]
  /\ ldata = [p \in Procs |-> <<>>]
  /\ pc = "idle"
  /\ defers = <<>>
  /\ retval = NilErr
  /\ miner = [TokenID |-> 25, sessionID |-> ""]
  /\ state = ZeroState
  /\ stateFile = NoFile
  /\ networkBackoff = 0
  /\ cancelled = FALSE
  /\ ctrl \in {[attached |-> a, paused |-> FALSE, tokenID |-> 25] : a \in BOOLEAN}
  /\ loc = BlankLoc
  /\ resp = Nil
  /\ sleepDur = 0
  /\ g = BlankHistory
  /\ lim = Limits
  /\ hub = BlankHub
  /\ fsys = BlankFS
  /\ chat = BlankChat

NextHub ==
  \/ Emit
  \/ PublishSend
  \/ \E c \in Subs : Subscribe(c)
  \/ \E c \in Subs : ReplaySend(c)
  \/ \E c \in Subs : Receive(c)
  \/ \E c \in Subs : UnsubscribeDelete(c)
  \/ \E c \in Subs : UnsubscribeClose(c)

SpecHub == InitHub /\ [][NextHub]_vars

\* the calls the tool receives
CallSamples ==
  { [operation |-> op, path |-> p, content |-> Content("a", 0), dest |-> <<>>] :
      op \in (Operations \ {"write", "move"}) \cup {"copy"}, p \in PathSamples }
  \cup { [operation |-> "write", path |-> p, content |-> c, dest |-> <<>>] :
           p \in PathSamples, c \in ContentSamples }
  \cup { [operation |-> "move", path |-> p, content |-> Content("a", 0), dest |-> d] :
           p \in PathSamples, d \in DestSamples }

\* part_001:83-110  one call of the tool: content is read by write only,
\* dest by move only
FsCall(a) ==
  /\ fsys.calls < MaxCalls
  /\ LET r == Call(fsys.fs, a) IN
       fsys' = [fs |-> r.fs, calls |-> fsys.calls + 1, args |-> a, out |-> r.out]
  /\ UNCHANGED <<lockFile, alive, lpc, ldata, cancelled, ctrl, lim, hub, chat, engineVars>>

\* the tool by itself
InitFS == InitHub /\ ~ctrl.attached

NextFS == \E a \in CallSamples : FsCall(a)

SpecFS == InitFS /\ [][NextFS]_vars

\* what a step of the session store leaves alone
ChatOnly == UNCHANGED <<lockFile, alive, lpc, ldata, cancelled, ctrl, lim, hub, fsys, engineVars>>

\* chat.go:385-393  saveToDisk: the file of the session is written
SaveToDisk(files, id, now) ==
  [x \in DOMAIN files \cup {id} |-> IF x = id THEN now ELSE files[x]]

\* chat.go:409-439  listMetas: the ids that can come first, those saved last
Newest(files) == { x \in DOMAIN files : \A y \in DOMAIN files : files[y] <= files[x] }

\* chat.go:442-451  pruneOldSessions: beyond maxSessions files, only the
\* ones saved last are kept
RECURSIVE PruneOldSessions(_)
PruneOldSessions(files) ==
  IF Cardinality(DOMAIN files) <= maxSessions THEN files
  ELSE LET old == CHOOSE x \in DOMAIN files : \A y \in DOMAIN files : files[x] <= files[y]
       IN  PruneOldSessions([x \in DOMAIN files \ {old} |-> files[x]])

\* SessionStore.mu is free: no DeleteSession is between its lock and unlock
StoreUnlocked == chat.dpc = "idle"

\* chat.go:268-270  Chat takes the current session under the lock
ChatBegin ==
  /\ chat.cpc = "idle" /\ StoreUnlocked
  /\ chat' = [chat EXCEPT !.cpc = "llm", !.sess = chat.current]
  /\ ChatOnly

\* chat.go:272-275  the exchange with the provider ends, with a reply or an error
ChatReply(ok) ==
  /\ chat.cpc = "llm"
  /\ chat' = [chat EXCEPT !.cpc = IF ok THEN "save" ELSE "idle"]
  /\ ChatOnly

\* chat.go:278  the auto-save of Chat, outside the lock
ChatSaved(c) == SaveToDisk(c.files, c.sess, c.clock)

ChatSave ==
  /\ chat.cpc = "save"
  /\ chat' = [chat EXCEPT !.cpc = "idle", !.files = ChatSaved(chat)]
  /\ ChatOnly

\* chat.go:283-292  NewSession
NewSession ==
  /\ StoreUnlocked
  /\ LET id == SessionID(chat.clock) IN
       chat' = [chat EXCEPT !.current = id,
                            !.files = PruneOldSessions(SaveToDisk(@, id, chat.clock)),
                            !.gone = @ \ {id}]
  /\ ChatOnly

\* chat.go:296-314  SwitchSession: a session without a readable file is not found
SwitchSession(id) ==
  /\ StoreUnlocked
  /\ chat' = [chat EXCEPT !.current = IF id \in DOMAIN chat.files THEN id ELSE @]
  /\ ChatOnly

\* chat.go:319-325  DeleteSession takes the lock and removes the file; a
\* file that does not exist is no error
DeleteRemove(id) ==
  /\ StoreUnlocked
  /\ chat' = [chat EXCEPT !.dpc = "removed", !.did = id,
                          !.files = [x \in DOMAIN @ \ {id} |-> @[x]]]
  /\ ChatOnly

\* chat.go:327-342  the rest of DeleteSession: if the current session was
\* deleted, the one saved last becomes current, or a fresh one is created
\* and saved; then the call returns
DeleteSwitch ==
  /\ chat.dpc = "removed"
  /\ IF chat.current # chat.did
     THEN chat' = [chat EXCEPT !.dpc = "idle", !.gone = @ \cup {chat.did}]
     ELSE IF DOMAIN chat.files # {}
     THEN \E id \in Newest(chat.files) :
            chat' = [chat EXCEPT !.dpc = "idle", !.current = id,
                                 !.gone = @ \cup {chat.did}]
     ELSE LET id == SessionID(chat.clock) IN
          chat' = [chat EXCEPT !.dpc = "idle", !.current = id,
                               !.files = SaveToDisk(@, id, chat.clock),
                               !.gone = (@ \cup {chat.did}) \ {id}]
  /\ ChatOnly

\* a second passes
ClockTick ==
  /\ chat.clock < MaxTime
  /\ chat' = [chat EXCEPT !.clock = @ + 1]
  /\ ChatOnly

\* the requests of the console: the sessions there can be, and one there is not
SessionSamples == { SessionID(t) : t \in 0..MaxTime } \cup { SessionID(MaxTime + 1) }

\* the session store by itself: a chat, and the session requests, in any order
InitChat == InitHub /\ ~ctrl.attached

NextChat ==
  \/ ChatBegin
  \/ \E ok \in BOOLEAN : ChatReply(ok)
  \/ ChatSave
  \/ NewSession
  \/ \E id \in SessionSamples : SwitchSession(id)
  \/ \E id \in SessionSamples : DeleteRemove(id)
  \/ DeleteSwitch
  \/ ClockTick

SpecChat == InitChat /\ [][NextChat]_vars

\* states a run can have reached: n counted submissions of which h were hits,
\* f counted challenge failures, a trust score, a cached challenge or none
StateSamples ==
  { [LastChallenge |-> ch, TotalInscriptions |-> x[1], TotalCWEarned |-> 2500 * x[1],
     TotalHits |-> x[2], ChallengesPassed |-> x[1], ChallengesFailed |-> f,
     LastTrustScore |-> ts, LastMineAt |-> IF x[1] = 0 THEN 0 ELSE Now] :
       ch \in OptChallenge,
       x \in { y \in (0..MaxSuccess) \X (0..MaxSuccess) : y[2] <= y[1] },
       f \in 0..MaxChallengeFails, ts \in {0, 85} }

\* the JSON object o with the value of key k replaced
WithValue(o, k, x) == [y \in DOMAIN o \cup {k} |-> IF y = k THEN x ELSE o[y]]

\* values of the wrong JSON type for a key of the state file
WrongValues ==
  { <<"total_hits", JText("many")>>, <<"total_inscriptions", JObj(MarshalChallenge(Chal1))>>,
    <<"challenges_failed", [t |-> "num", v |-> <<"1", ".", "5">>]>>,
    <<"last_challenge", JNum(7)>>, <<"last_trust_score", JText("high")>> }

\* state files a run can find: none (or an unreadable one), text that is not
\* JSON, the file of an earlier Save, and such a file with one value of the
\* wrong type
StateFiles ==
  {NoFile, FileOf(NotJSON)}
  \cup { SaveResult(s) : s \in {ZeroState, LoadedState(Ptr(Chal1), Now)} }
  \cup { FileOf(Document(WithValue(Marshal(s), w[1], w[2]))) :
           s \in { x \in StateSamples : x.TotalInscriptions = 1 /\ x.ChallengesFailed = 1
                                        /\ x.LastChallenge # Ptr(Chal2) },
           w \in WrongValues }

\* display.go:194-200  State.Save, outside a run
StateSave ==
  /\ pc = "idle"
  /\ Become([Cur EXCEPT !.pc = "saved", !.stateFile = SaveResult(state)])
  /\ UNCHANGED <<lockFile, lpc>>
  /\ EnvUnchanged

\* display.go:183-191, main.go:453  LoadState at the start of a process
StateLoad ==
  /\ pc \in {"idle", "saved"}
  /\ Become([Cur EXCEPT !.pc = IF pc = "saved" THEN "reloaded" ELSE "loaded",
                        !.state = LoadState(stateFile)])
  /\ UNCHANGED <<lockFile, lpc>>
  /\ EnvUnchanged

\* Save and LoadState by themselves, on every sample state and state file
InitState ==
  /\ lockFile = NoFile
  /\ alive = {Pid(1)}
  /\ lpc = [p \in Procs |-> IF p = 1 THEN "start" ELSE "dead"]
  /\ ldata = [p \in Procs |-> <<>>]
  /\ pc = "idle"
  /\ defers = <<>>
  /\ retval = NilErr
  /\ miner = [TokenID |-> 25, sessionID |-> ""]
  /\ state \in StateSamples
  /\ stateFile \in StateFiles
  /\ networkBackoff = 0
  /\ cancelled = FALSE
  /\ ctrl = [attached |-> FALSE, paused |-> FALSE, tokenID |-> 25]
  /\ loc = BlankLoc
  /\ resp = Nil
  /\ sleepDur = 0
  /\ g = BlankHistory
  /\ lim = Limits
  /\ hub = BlankHub
  /\ fsys = BlankFS
  /\ chat = BlankChat

NextState == StateSave \/ StateLoad

SpecState == InitState /\ [][NextState]_vars

\* two contenders before either has called AcquireLock; the two lock
\* specifications leave the engine where it is
LockInit ==
  /\ lockFile \in InitialLockFiles
  /\ alive \in {{Pid(1), Pid(2)}, {Pid(1), Pid(2), ForeignPid}}
  /\ lpc = [p \in Procs |-> "start"]
  /\ ldata = [p \in Procs |-> <<>>]
  /\ pc = "idle"
  /\ defers = <<>>
  /\ retval = NilErr
  /\ miner = [TokenID |-> 25, sessionID |-> ""]
  /\ state = ZeroState
  /\ stateFile = NoFile
  /\ networkBackoff = 0
  /\ cancelled = FALSE
  /\ ctrl = [attached |-> FALSE, paused |-> FALSE, tokenID |-> 25]
  /\ loc = BlankLoc
  /\ resp = Nil
  /\ sleepDur = 0
  /\ g = BlankHistory
  /\ lim = Limits
  /\ hub = BlankHub
  /\ fsys = BlankFS
  /\ chat = BlankChat

EngineUnchanged == UNCHANGED <<cancelled, ctrl, lim, hub, fsys, chat, engineVars>>

\* two contenders, every interleaving of the steps of AcquireLock
NextLock ==
  \/ \E p \in Procs : LockRead(p) /\ EngineUnchanged
  \/ \E p \in Procs : LockCheck(p) /\ EngineUnchanged
  \/ \E p \in Procs : LockRemove(p) /\ EngineUnchanged
  \/ \E p \in Procs : LockWrite(p) /\ EngineUnchanged
  \/ \E p \in Procs : LockRelease(p) /\ EngineUnchanged
  \/ \E p \in Procs : ProcExit(p) /\ EngineUnchanged
  \/ ForeignExit /\ EngineUnchanged

SpecLock == LockInit /\ [][NextLock]_vars

\* two contenders, each call of AcquireLock uninterrupted
NextLockSeq ==
  \/ \E p \in Procs : AcquireLock(p) /\ EngineUnchanged
  \/ \E p \in Procs : LockRelease(p) /\ EngineUnchanged
  \/ \E p \in Procs : ProcExit(p) /\ EngineUnchanged
  \/ ForeignExit /\ EngineUnchanged

SpecLockSeq == LockInit /\ [][NextLockSeq]_vars

\* ------------------------------------------------------------------------
\* Properties of the process lock
\* ------------------------------------------------------------------------

\* C1: two processes that run AcquireLock against the same state directory
\* never both hold a successful acquisition at the same time, under any
\* interleaving of the steps of AcquireLock.
LockMutualExclusion == Cardinality({p \in Procs : lpc[p] = "held"}) <= 1

\* the lock file holds the decimal numeral of pid, possibly signed "+" and
\* surrounded by white space
Records(f, pid) ==
  /\ f # NoFile
  /\ \E lead, trail \in {<<>>, <<" ">>, <<"\n">>}, sign \in {<<>>, <<"+">>} :
       f[1] = lead \o sign \o Itoa(pid) \o trail

RecordsLivePid(f) == \E pid \in alive : Records(f, pid)

\* C2: an uninterrupted call of AcquireLock fails and leaves the lock file
\* unchanged when the file records the PID of a live process; otherwise it
\* succeeds and the lock file then records the caller's PID.
SequentialLock ==
  [][\A p \in Procs :
       (lpc[p] = "start" /\ lpc'[p] \in {"held", "failed"}) =>
          IF RecordsLivePid(lockFile)
          THEN lpc'[p] = "failed" /\ lockFile' = lockFile
          ELSE lpc'[p] = "held" /\ lockFile' = FileOf(Itoa(Pid(p)))]_vars

\* the second of two live processes was refused and the first holds the lock
WitSequentialLock ==
  \E p, q \in Procs :
    /\ lpc[p] = "held" /\ lpc[q] = "failed"
    /\ lockFile = FileOf(Itoa(Pid(p)))

\* ------------------------------------------------------------------------
\* Properties of the run loop
\* ------------------------------------------------------------------------

OwnLockFile == FileOf(Itoa(Pid(1)))

\* C3: once Run has acquired the lock, the release function is not invoked
\* while Run is running, and every return of Run invokes it exactly once and
\* leaves no lock file behind.
ReleaseOnEveryExit ==
  /\ g.releases <= 1
  /\ pc \notin {"acquire", "unwind", "done"} => (g.releases = 0 /\ lockFile = OwnLockFile)
  /\ (pc = "done" /\ lpc[1] # "failed") => (g.releases = 1 /\ lockFile = NoFile)

\* Run returned after a fatal response to a submission and released the lock
WitReleaseOnEveryExit ==
  /\ pc = "done" /\ g.releases = 1 /\ lockFile = NoFile
  /\ resp # Nil /\ IsFatal(resp[1]) /\ retval # NilErr

ListedFatalCodes == {"NOT_CLAIMED", "WALLET_REQUIRED", "AGENT_BANNED", "INVALID_API_KEY",
                     "ALREADY_MINING", "UPGRADE_REQUIRED"}

\* C4: once a submit call has returned a response with one of the fatal error
\* codes, Run is returning a non-nil error: it does not sleep and makes no
\* further submit call.
FatalNeverRetried ==
  (resp # Nil /\ resp[1].Error \in ListedFatalCodes) =>
     (pc \in {"unwind", "done"} /\ retval # NilErr)

\* Run has returned the error of an UPGRADE_REQUIRED response to a submission
WitFatalNeverRetried ==
  /\ pc = "done" /\ g.submitted
  /\ resp # Nil /\ resp[1].Error = "UPGRADE_REQUIRED"
  /\ retval = <<"upgrade required">>

\* C5: when the session-start response carries ALREADY_MINING or
\* UPGRADE_REQUIRED, Run returns a non-nil error without any submit call and
\* without the resumed cooldown, and the lock is released.
FatalSessionAborts ==
  g.sessCode \in {"ALREADY_MINING", "UPGRADE_REQUIRED"} =>
     /\ pc \in {"unwind", "done"}
     /\ retval # NilErr
     /\ ~g.submitted
     /\ sleepDur = 0
     /\ pc = "done" => (g.releases = 1 /\ lockFile = NoFile)

\* Run has returned on UPGRADE_REQUIRED although a cooldown was pending
WitFatalSessionAborts ==
  /\ g.sessCode = "UPGRADE_REQUIRED" /\ pc = "done" /\ g.releases = 1
  /\ state.LastMineAt = Now - 600

\* C6: whenever a response carries a fatal code, the response to the session
\* start included, the run terminates with an error and no submit call is
\* made after that response.
FatalShortCircuit ==
  /\ g.sessCode \in FatalCodes =>
        (pc \in {"unwind", "done"} /\ retval # NilErr /\ ~g.submitted)
  /\ (resp # Nil /\ IsFatal(resp[1])) => (pc \in {"unwind", "done"} /\ retval # NilErr)

\* the session-start outcome quotes server text that isFatalSessionError matches
QuotesFatalText == \E k \in 1..Len(g.sessText) :
                      g.sessText[k] \in {"agent not claimed", "agent banned"}

\* Run leaves the session start for the resumed cooldown or the loop
SessionStartContinues == pc' \in {"sleep_resume", "loop_top"}

SuccessBranchTaken ==
  \/ state'.TotalInscriptions # state.TotalInscriptions
  \/ state'.TotalCWEarned # state.TotalCWEarned
  \/ state'.ChallengesPassed # state.ChallengesPassed
  \/ (pc' = "sleep_cooldown" /\ pc # "sleep_cooldown")

\* C8: the success branch of the loop (the state update and the 1800 s
\* cooldown) is taken only on a response whose error field is empty and whose
\* id_status is not "taken".
SuccessOnlyWithoutError ==
  [][SuccessBranchTaken =>
       (resp' # Nil /\ resp'[1].Error = "" /\ resp'[1].IDStatus # "taken")]_vars

\* the cooldown after a counted submission
WitSuccessOnlyWithoutError ==
  /\ pc = "sleep_cooldown" /\ sleepDur = defaultCooldown
  /\ state.TotalInscriptions = 1 /\ state.TotalCWEarned = 2500
  /\ resp # Nil /\ resp[1].Error = ""

\* mineOnce ended on a challenge error that carried a challenge
EndedOnChallenge == resp # Nil /\ IsChallenge(resp[1]) /\ GetChallenge(resp[1]) # Nil

\* C9: a cycle makes at most 6 submit calls; a cycle that fails on a challenge
\* error carrying a challenge has made the first submission and exactly 5
\* resubmissions, and the challenge of that last response is the cached one.
ChallengeRetryBound ==
  /\ g.cycleSubmits <= 6
  /\ (pc = "sleep_backoff" /\ EndedOnChallenge) =>
        (g.cycleSubmits = 6 /\ state.LastChallenge = GetChallenge(resp[1]))

\* the backoff after six challenge errors, the second challenge being cached
WitChallengeRetryBound ==
  /\ pc = "sleep_backoff" /\ EndedOnChallenge /\ g.cycleSubmits = 6
  /\ state.LastChallenge = Ptr(Chal2)

Min(a, b) == IF a <= b THEN a ELSE b

BackoffResetAfterResponse ==
  (pc = "sleep_backoff" /\ g.consecFail = 1 /\ g.consecTransport = 1) =>
     sleepDur = initialBackoff

\* C12: the n-th of n consecutive cycles that end in an unhandled server
\* error sleeps min(5 * 2^(n-1), 300) seconds, as n transport errors do.
BackoffOfUnhandledRun ==
  (pc = "sleep_unhandled" /\ g.consecUnhandled > 0) =>
     sleepDur = Min(5 * 2^(g.consecUnhandled - 1), 300)

\* the loop is waiting for the console's pause to end
PausePcs == {"pause_loop", "sleep_pause"}

\* a step of the waiting loop changes nothing and leaves the wait only on a
\* read of IsPaused that returns false or on cancellation
WaitingStep ==
  /\ state' = state
  /\ g'.submitted = g.submitted /\ g'.cycleSubmits = g.cycleSubmits
  /\ pc' \in PausePcs \cup {"retarget", "unwind"}
  /\ pc' = "retarget" => (pc = "pause_loop" /\ ~ctrl.paused)
  /\ pc' = "unwind" => cancelled

\* C13: a cycle that finds the console paused at its start waits; until a
\* read of IsPaused returns false or the run is cancelled the engine makes no
\* submit call and no solver call and leaves the engine state alone.
PauseHolds ==
  /\ [][(pc = "loop_top" /\ pc' # "loop_top" /\ ~cancelled /\ ctrl.attached /\ ctrl.paused)
          => pc' = "pause_loop"]_vars
  /\ [][(pc \in PausePcs) => WaitingStep]_vars

\* the engine waits, paused, with a cached challenge it would otherwise solve
WitPauseHolds ==
  /\ pc = "sleep_pause" /\ ctrl.paused /\ ~cancelled
  /\ state.LastChallenge # Nil /\ ~g.submitted

\* mineOnce is running
InCycle == pc \in {"llm", "sleep_llm", "submit"}

\* C14: the requests of one cycle all carry the target read from the console
\* at the start of the cycle; SetTokenID during the cycle changes neither the
\* request nor the engine's target before the next cycle starts.
TargetFixedInCycle ==
  /\ [](InCycle => loc.req.TokenID = miner.TokenID)
  /\ [][(pc = "retarget" /\ pc' # "retarget")
          => (InCycle' /\ loc'.req.TokenID = ctrl.tokenID)]_vars
  /\ [][InCycle => (miner'.TokenID = miner.TokenID
                      /\ (InCycle' => loc'.req.TokenID = loc.req.TokenID))]_vars

\* a resubmission about to be sent after the console changed the target
WitTargetFixedInCycle ==
  /\ pc = "submit" /\ loc.site = "retry" /\ g.cycleSubmits >= 1
  /\ ctrl.tokenID # loc.req.TokenID

\* the startup sleep the loaded state calls for
ExpectedResume ==
  IF state.LastMineAt # 0 /\ Now - state.LastMineAt < defaultCooldown
  THEN defaultCooldown - (Now - state.LastMineAt)
  ELSE 0

\* the loop has been entered and no submit call was made yet
BeforeFirstSubmit ==
  /\ ~g.submitted
  /\ pc \in {"loop_top", "pause_loop", "sleep_pause", "retarget", "llm", "sleep_llm", "submit"}

\* C15: before its first submit call the engine has slept exactly the rest of
\* the 1800 s since last_mine_at when that is non-zero and less than 1800 s
\* ago, and has not slept at startup otherwise.
ResumedCooldown ==
  /\ pc = "sleep_resume" => (sleepDur = ExpectedResume /\ sleepDur > 0 /\ ~g.submitted)
  /\ BeforeFirstSubmit => g.startupSleep = ExpectedResume

\* the first submit call after a resumed cooldown of 20 minutes
WitResumedCooldown ==
  /\ pc = "submit" /\ ~g.submitted
  /\ state.LastMineAt = Now - 600 /\ g.startupSleep = 1200

\* a submission is counted as successful
SuccessStep == state'.TotalInscriptions # state.TotalInscriptions

\* the event and the sleep that follow a successful submission
SuccessFollowUp ==
  /\ pc' = "sleep_cooldown" /\ sleepDur' = defaultCooldown
  /\ g'.results = <<IF resp'[1].Hit THEN "hit" ELSE "inscription">>

\* the cooldown ends by running out, or by cancellation with the return of Run
CooldownEnd == (pc' = "loop_top" /\ ~cancelled) \/ (pc' = "unwind" /\ cancelled)

\* C16: a successful submission emits exactly one result event, "hit" for a
\* hit and "inscription" otherwise, and starts a sleep of 1800 s; the loop
\* goes on to its next cycle only when that sleep has run out.
SuccessThenCooldown ==
  /\ [](Len(g.results) <= 1)
  /\ [][SuccessStep => SuccessFollowUp]_vars
  /\ [][(pc = "sleep_cooldown" /\ pc' # "sleep_cooldown") => CooldownEnd]_vars

\* the cooldown after a hit, with its single event
WitSuccessThenCooldown ==
  /\ pc = "sleep_cooldown" /\ sleepDur = defaultCooldown
  /\ g.results = <<"hit">> /\ state.TotalHits = 1

\* the engine is asleep or has returned
AtRest == pc \in SleepPcs \/ (pc = "done" /\ lpc[1] # "failed")

\* C17: whenever the engine sleeps or has terminated, the state file holds the
\* engine state: loading it gives the state in memory.
PersistedAtRest == AtRest => LoadState(stateFile) = state

\* C18: Save followed by LoadState gives back the state that was saved, with
\* every counter, the trust score, the timestamp and the cached challenge.
SaveLoadRoundTrip == [][(pc = "saved" /\ pc' = "reloaded") => state' = state]_vars

\* a state with a cached challenge, a trust score and a timestamp came back
WitSaveLoadRoundTrip ==
  /\ pc = "reloaded" /\ state.LastChallenge = Ptr(Chal1) /\ state.LastTrustScore = 85
  /\ state.TotalInscriptions = 1 /\ state.LastMineAt = Now /\ LoadState(stateFile) = state

\* the JSON value x is one json.Unmarshal stores under key k of a State
WellTyped(k, x) ==
  CASE k = "last_challenge" -> x.t \in {"obj", "null"}
    [] k = "last_mine_at" -> x.t = "time"
    [] OTHER -> x.t = "num" /\ Atoi(x.v).ok

\* the state file is missing, unreadable, not JSON, or has an ill-typed value
Corrupt(f) ==
  \/ f = NoFile
  \/ ~f[1].valid
  \/ \E k \in DOMAIN f[1].obj : ~WellTyped(k, f[1].obj[k])

\* no counter is set and no challenge is cached
Fresh(s) ==
  /\ s.LastChallenge = Nil
  /\ s.TotalInscriptions = 0 /\ s.TotalCWEarned = 0 /\ s.TotalHits = 0
  /\ s.ChallengesPassed = 0 /\ s.ChallengesFailed = 0

\* C19: LoadState on a missing, unreadable or corrupt state file returns a
\* state with every counter zero and no cached challenge.
LoadStartsFresh ==
  [][(pc = "idle" /\ pc' = "loaded" /\ Corrupt(stateFile)) => Fresh(state')]_vars

\* the counters of the engine state keep their values
CountersUnchanged ==
  /\ state'.TotalInscriptions = state.TotalInscriptions
  /\ state'.TotalCWEarned = state.TotalCWEarned
  /\ state'.TotalHits = state.TotalHits
  /\ state'.ChallengesPassed = state.ChallengesPassed
  /\ state'.ChallengesFailed = state.ChallengesFailed

\* the submit call of this step is answered with a rate-limit code
RateLimitedStep == pc = "submit" /\ resp' # Nil /\ resp'[1].Error \in RateCodes

\* the rate-limit wait ends by running out, or by cancellation with Run
\* returning nil
RateWaitEnd ==
  \/ (pc' = "loop_top" /\ ~cancelled)
  \/ (pc' = "unwind" /\ cancelled /\ retval' = NilErr)

\* C20: a response with RATE_LIMITED or DAILY_LIMIT_REACHED makes the engine
\* sleep retry_after seconds when that is positive and 1800 s otherwise,
\* with no counter changed; after the sleep the loop starts its next cycle.
RateLimitWaits ==
  /\ [][RateLimitedStep => (pc' = "sleep_rate" /\ CountersUnchanged)]_vars
  /\ [](pc = "sleep_rate" =>
          /\ resp # Nil /\ resp[1].Error \in RateCodes
          /\ sleepDur = IF resp[1].RetryAfter > 0 THEN resp[1].RetryAfter
                        ELSE defaultCooldown)
  /\ [][(pc = "sleep_rate" /\ pc' # "sleep_rate") => RateWaitEnd]_vars

\* the wait of 60 s the server asked for with DAILY_LIMIT_REACHED
WitRateLimitWaits ==
  /\ pc = "sleep_rate" /\ resp # Nil /\ resp[1].Error = "DAILY_LIMIT_REACHED"
  /\ resp[1].RetryAfter = 60 /\ sleepDur = 60

\* the response on which the cycle ended names a taken target and belongs
\* to no earlier category
TakenResponse ==
  /\ resp # Nil
  /\ ~IsFatal(resp[1]) /\ ~IsRateLimited(resp[1]) /\ ~IsChallenge(resp[1])
  /\ resp[1].IDStatus = "taken"

\* the submit call of this step is answered with such a response
TakenStep == pc = "submit" /\ TakenResponse'

\* C21: when a submit response that is not fatal, not rate-limited and not
\* a challenge error has id_status "taken", Run returns an error that is not
\* nil, makes no further submit call, and does not count the response as a
\* submission.
TakenIsFatal ==
  /\ [][TakenStep => /\ pc' = "unwind" /\ retval' # NilErr
                     /\ CountersUnchanged
                     /\ state'.LastMineAt = state.LastMineAt
                     /\ stateFile' = stateFile]_vars
  /\ [](TakenResponse => (pc \in {"unwind", "done"} /\ retval # NilErr))
  /\ [][(TakenResponse /\ ~TakenStep) => g'.cycleSubmits = g.cycleSubmits]_vars

\* Run has ended on a taken target that came with an error code the client
\* does not know
WitTakenIsFatal ==
  /\ pc = "done" /\ TakenResponse /\ resp[1].Error = UnknownCode
  /\ retval = <<"token is taken">> /\ g.cycleSubmits = 1

\* a fatal code arrived, at the session start or in the response that ended
\* the last cycle
FatalReceived == g.sessCode \in FatalCodes \/ (resp # Nil /\ IsFatal(resp[1]))

\* the response that ended the last cycle reports the target as taken
TakenReceived == resp # Nil /\ resp[1].IDStatus = "taken"

\* Run has returned after it acquired the lock
ReturnedWithLock == pc \in {"unwind", "done"} /\ lpc[1] # "failed"

\* C22: after the lock has been acquired, Run returns an error that is not
\* nil only when a fatal code or a taken target was received; transport
\* errors, challenge errors, retry exhaustion, solver failures, rate-limit
\* responses and unhandled server errors never make Run return, which
\* otherwise returns only once the context is cancelled.
OnlyFatalEscapes ==
  /\ (ReturnedWithLock /\ retval # NilErr) => (FatalReceived \/ TakenReceived)
  /\ (ReturnedWithLock /\ retval = NilErr) => cancelled

\* the cancellation arrived while Run was in one of its sleeps
CancelledAtSleep == g.cancelAt \in SleepPcs

\* C23: if the cancellation arrives while the engine is at a suspension
\* point (resumed cooldown, pause poll, backoff, rate-limit wait, cooldown
\* after a success, or the solver's delay between attempts), the sleep
\* reports the cancellation and Run returns nil; from the cancellation on the
\* engine is in that sleep or returning, so it starts no submit call and no
\* solver call.
CancelUnwinds ==
  /\ [](CancelledAtSleep =>
          \/ pc = g.cancelAt
          \/ pc \in {"unwind", "done"} /\ retval = NilErr)
  /\ [][CancelledAtSleep =>
          (g'.cycleSubmits = g.cycleSubmits /\ g'.submitted = g.submitted)]_vars

\* Run has returned nil after a cancellation during the cooldown that
\* follows a success
WitCancelUnwinds ==
  /\ pc = "done" /\ g.cancelAt = "sleep_cooldown" /\ retval = NilErr
  /\ state.TotalInscriptions = 1

\* C24: once the cancellation is raised the run eventually ends; before it
\* ends, the session-end request is sent if a session id was issued (on a
\* context of its own, so also when the run's context is cancelled), and
\* only after that the process lock is released.
CleanupAfterCancel ==
  /\ cancelled ~> (pc = "done")
  /\ [](g.releases > 0 => /\ defers = <<>>
                          /\ miner.sessionID # "" => g.sessionEnds = 1)
  /\ []((pc = "done" /\ lpc[1] # "failed") => (g.releases = 1 /\ lockFile = NoFile))
  /\ [][g'.sessionEnds # g.sessionEnds =>
          (g.releases = 0 /\ g'.releases = 0 /\ lpc[1] = "held")]_vars

\* a cancelled run with a session has ended: one session-end request, then
\* one release
WitCleanupAfterCancel ==
  /\ pc = "done" /\ cancelled /\ miner.sessionID = "s1"
  /\ g.sessionEnds = 1 /\ g.releases = 1 /\ ctrl.paused

\* C25: on every path by which Run ends after the session start
\* (cancellation, taken target, fatal response to a submission) the session
\* end is attempted and the final stats summary is displayed before Run
\* returns.
StatsOnEveryEnd ==
  (pc = "done" /\ g.started) =>
     /\ g.stats >= 1
     /\ miner.sessionID # "" => g.sessionEnds = 1

\* the step is a provider call of the solver with outcome o, and it ends as
\* the claim says: a usable answer is returned at once, a failed attempt
\* before the third is followed by the delay, the third failure is an error
SolverAttempt(o) ==
  RunSolve(o) =>
    IF o = "ok"
    THEN /\ pc' = "submit"
         /\ loc'.req.ChallengeAnswer = AnswerFor(loc.challenge[1].Prompt)
    ELSE IF loc.attempt < 2
    THEN pc' = "sleep_llm" /\ loc'.attempt = loc.attempt + 1
    ELSE pc' \in {"sleep_backoff", "unwind"}

\* C26: one call of the challenge solver invokes the provider at most 3
\* times; it returns the answer of the first attempt that yields no error
\* and a non-empty text, and calls the provider no more after that; it never
\* returns success with an empty answer; if all 3 attempts fail or return an
\* empty text it returns an error.
SolverAttemptBound ==
  /\ [](pc \in {"llm", "sleep_llm"} => loc.attempt \in 0..2)
  /\ [][\A o \in LLMOutcomes : SolverAttempt(o)]_vars
  /\ [][(pc = "llm" /\ pc' = "submit") => loc'.req.ChallengeAnswer # <<>>]_vars
  /\ [][(pc = "sleep_llm" /\ pc' # pc) =>
          (pc' = "llm" /\ loc'.attempt = loc.attempt) \/ pc' = "unwind"]_vars

\* the third attempt of a solver call gave the answer that is submitted
WitSolverAttemptBound ==
  /\ pc = "submit" /\ loc.attempt = 2 /\ loc.site = "retry"
  /\ loc.req.ChallengeAnswer = AnswerFor(loc.challenge[1].Prompt)

\* the solver's delay between two attempts ends with the context cancelled
SolverDelayCancelled == pc = "sleep_llm" /\ cancelled /\ pc' # pc

\* C27: if the context is cancelled while the solver waits between two
\* attempts, the solver returns at once without another provider call, and
\* the cycle ends with Run returning nil; the outer backoff is not entered
\* and the cycle is not counted as failed.
SolverCancellation ==
  /\ [][SolverDelayCancelled =>
          /\ pc' = "unwind" /\ retval' = NilErr
          /\ networkBackoff' = networkBackoff
          /\ g'.consecFail = g.consecFail]_vars
  /\ [](g.cancelAt = "sleep_llm" => pc \in {"sleep_llm", "unwind", "done"})

\* Run is returning nil after a cancellation during a delay of the solver,
\* with the stats shown and both deferred calls still to run
WitSolverCancellation ==
  /\ pc = "unwind" /\ g.cancelAt = "sleep_llm" /\ retval = NilErr
  /\ defers = <<"endSession", "releaseLock">> /\ g.stats = 1 /\ g.consecFail = 0

\* the submit call of this step is answered with the error CHALLENGE_FAILED
ChallengeFailedStep ==
  \E r \in SubmitResponses(state, lim) : r.Error = "CHALLENGE_FAILED" /\ RunSubmit(r)

\* C28: challenges_failed increases by exactly one for every submit response
\* whose error is CHALLENGE_FAILED, the last response of an exhausted retry
\* loop and a response without a replacement challenge included, and is not
\* changed by any other challenge error or any other event.
ChallengeFailureAccounting ==
  [][state'.ChallengesFailed =
       state.ChallengesFailed + (IF ChallengeFailedStep THEN 1 ELSE 0)]_vars

\* the engine's reads: IsPaused at the top of the loop and in the pause
\* poll, TokenID before the cycle; each returns the last completed write
ReadsLastWrite ==
  /\ (pc = "loop_top" /\ pc' # pc /\ ~cancelled) => ((pc' = "pause_loop") <=> g.written.paused)
  /\ (pc = "pause_loop" /\ pc' # pc) => ((pc' = "sleep_pause") <=> g.written.paused)
  /\ (pc = "retarget" /\ pc' # pc) => miner'.TokenID = g.written.tokenID

\* each console call writes its own field and leaves the other alone
WritesOwnField ==
  /\ Pause => (ctrl'.paused /\ ctrl'.tokenID = ctrl.tokenID)
  /\ Resume => (~ctrl'.paused /\ ctrl'.tokenID = ctrl.tokenID)
  /\ \A id \in TokenIDs :
       SetTokenID(id) => (ctrl'.tokenID = id /\ ctrl'.paused = ctrl.paused)

\* C29: under any interleaving of the console's calls Pause, Resume and
\* SetTokenID with the engine's reads IsPaused and TokenID, every read
\* returns the value of the most recent completed write to that field, or
\* the initial value; Pause and Resume leave the target id unchanged, and
\* SetTokenID leaves the paused flag unchanged.
ControlWritesKept ==
  /\ [](ctrl.attached => (ctrl.paused = g.written.paused /\ ctrl.tokenID = g.written.tokenID))
  /\ [][ReadsLastWrite]_vars
  /\ [][WritesOwnField]_vars

\* the engine waits in the pause it read, on its old target, while the
\* console has already set the next one
WitControlWritesKept ==
  /\ pc = "sleep_pause" /\ ctrl.paused /\ ctrl.tokenID = 26 /\ miner.TokenID = 25
  /\ g.written = [paused |-> TRUE, tokenID |-> 26]

\* the last element of a sequence that is not empty
Last(q) == q[Len(q)]

\* emit without a listener changes nothing but the count of its calls; with
\* the hub the event becomes the last of the history, which keeps its order
\* and loses at most its oldest event
EmitStores ==
  Emit =>
    IF ~ctrl.attached
    THEN hub' = [hub EXCEPT !.emitted = @ + 1]
    ELSE /\ hub'.history # <<>> /\ Last(hub'.history) = hub.emitted + 1
         /\ Len(hub'.history) <= HistoryKept
         /\ \/ hub'.history = Append(hub.history, hub.emitted + 1)
            \/ hub'.history = Append(Tail(hub.history), hub.emitted + 1)
         /\ hub'.buf = hub.buf

\* the sends of Publish: a subscriber whose channel is full misses the
\* event, every other registered subscriber gets it as the last event of its
\* channel, and nobody's buffered events are touched
SendDrops ==
  PublishSend =>
    \A c \in Subs :
      hub'.buf[c] = IF c \in hub.clients /\ Len(hub.buf[c]) < BufferSize
                    THEN Append(hub.buf[c], hub.pending[1])
                    ELSE hub.buf[c]

\* C30: a call of emit completes without waiting for any observer: both of
\* its steps can be taken whatever the subscribers' channels hold. With no
\* sink attached emit is a no-op; with the hub attached the event is dropped
\* for every subscriber whose buffer is full, delivered to the others and
\* appended to the history.
EmitNeverWaits ==
  /\ []((hub.pending # Nil /\ ~hub.panicked) => ENABLED PublishSend)
  /\ []((hub.pending = Nil /\ ~hub.panicked /\ hub.emitted < MaxEvents) => ENABLED Emit)
  /\ [](\A c \in Subs : Len(hub.buf[c]) <= BufferSize)
  /\ [][EmitStores]_vars
  /\ [][SendDrops]_vars

\* the last event is in the history and in the second subscriber's channel,
\* and was dropped for the first, whose channel is full of older events
WitEmitNeverWaits ==
  /\ hub.pending = Nil /\ hub.clients = {1, 2} /\ hub.history # <<>>
  /\ hub.buf[2] # <<>> /\ Last(hub.buf[2]) = Last(hub.history)
  /\ Len(hub.buf[1]) = BufferSize /\ Last(hub.buf[1]) < Last(hub.history)
  /\ hub.replay[1] = <<>>

\* C31: a subscriber receives all events of the history snapshot taken at
\* its subscription, in their original order, before any event published
\* after the subscription, under any interleaving of Subscribe with Publish:
\* no event waiting in its channel is newer than an event of the snapshot
\* that the replay has still to send.
ReplayBeforeLive ==
  \A c \in Subs :
    \A i \in 1..Len(hub.buf[c]) :
      \A j \in 1..Len(hub.replay[c]) : hub.buf[c][i] <= hub.replay[c][j]

\* C39: under any interleaving of the replay of Subscribe, Publish and the
\* unsubscribe function, no event is ever sent on a subscriber channel after
\* that channel was closed, also when unsubscribe runs while the replay of a
\* history longer than the channel's buffer is still in progress: no send
\* panics, and once a channel is closed nothing is left to send on it.
NoSendOnClosed ==
  /\ ~hub.panicked
  /\ \A c \in Subs : hub.closed[c] => (hub.replay[c] = <<>> /\ c \notin hub.clients)

\* the cycle ended on a challenge error that carried no challenge at all
NoReplacement ==
  /\ resp # Nil /\ IsChallenge(resp[1])
  /\ resp[1].Challenge = Nil /\ resp[1].NextChallenge = Nil

\* the step that follows such a cycle's end: nothing is submitted until the
\* next cycle starts, and that cycle's first request carries no challenge
AfterNoReplacement ==
  IF resp' = resp
  THEN g'.cycleSubmits = g.cycleSubmits /\ state'.LastChallenge = Nil
  ELSE /\ resp' = Nil /\ pc' = "submit"
       /\ loc'.req.ChallengeID = "" /\ loc'.req.ChallengeAnswer = <<>>

\* C34: whenever a submit response is a challenge error that carries no
\* challenge, neither in the challenge field nor in next_challenge, the
\* cached challenge is cleared, the cycle fails without another submit call,
\* and the next cycle submits with no challenge attached.
MissingReplacement ==
  /\ [][(pc = "submit" /\ NoReplacement') =>
          (pc' = "sleep_backoff" /\ state'.LastChallenge = Nil
           /\ g'.consecFail = g.consecFail + 1)]_vars
  /\ [](NoReplacement => (state.LastChallenge = Nil /\ pc # "llm"))
  /\ [][NoReplacement => AfterNoReplacement]_vars

\* the run started with a cached challenge, a cycle failed on a challenge
\* error without a replacement, and the next request goes out with no challenge
WitMissingReplacement ==
  /\ pc = "submit" /\ g.consecFail = 1 /\ g.cycleSubmits = 0
  /\ LoadState(stateFile).LastChallenge # Nil /\ state.LastChallenge = Nil
  /\ loc.req.ChallengeID = "" /\ state.TotalInscriptions = 0

\* the solver returns an error in this step
SolverFails == pc \in {"llm", "sleep_llm"} /\ pc' \in {"sleep_backoff", "unwind"}

\* the first request of a cycle carries the cached challenge if there is
\* one and no challenge otherwise; a request with a challenge id carries the
\* solver's non-empty answer to the prompt of that challenge
RequestsWellBuilt ==
  /\ (pc = "submit" /\ g.cycleSubmits = 0) =>
        /\ loc.req.ChallengeID # "" <=> state.LastChallenge # Nil
        /\ state.LastChallenge # Nil => loc.req.ChallengeID = state.LastChallenge[1].ID
  /\ (pc = "submit" /\ loc.req.ChallengeID # "") =>
        /\ loc.req.ChallengeAnswer # <<>>
        /\ \E ch \in Challenges : /\ ch.ID = loc.req.ChallengeID
                                  /\ loc.req.ChallengeAnswer = AnswerFor(ch.Prompt)
  /\ (pc = "submit" /\ loc.req.ChallengeID = "") => loc.req.ChallengeAnswer = <<>>

\* C35 as stated: the requests are built as above, and if the solver fails,
\* no submit call is made in that cycle and the cached challenge is left
\* unchanged.
RequestConstructionAsStated ==
  /\ []RequestsWellBuilt
  /\ [][SolverFails => (g'.cycleSubmits = 0 /\ state'.LastChallenge = state.LastChallenge)]_vars

\* C35 amended: the requests are built as above; if the solver fails, no
\* submit call follows in that cycle and the cached challenge is left
\* unchanged, and when it fails on the cached challenge the cycle has made
\* no submit call at all.
RequestConstruction ==
  /\ []RequestsWellBuilt
  /\ [][SolverFails =>
          /\ g'.cycleSubmits = g.cycleSubmits
          /\ state'.LastChallenge = state.LastChallenge
          /\ loc.site = "cached" => g.cycleSubmits = 0]_vars
  /\ [][(pc = "sleep_backoff" /\ resp = Nil /\ pc' # pc) =>
          (pc' = "loop_top" /\ g'.cycleSubmits = g.cycleSubmits)]_vars

\* the second cycle's first request, with the answer to the challenge that
\* the first cycle's last response left in the cache
WitRequestConstruction ==
  /\ pc = "submit" /\ g.cycleSubmits = 0 /\ g.consecFail = 1
  /\ LoadState(stateFile).LastChallenge = Nil /\ state.LastChallenge = Ptr(Chal2)
  /\ loc.req.ChallengeID = "c2" /\ loc.req.ChallengeAnswer = AnswerFor("p2")

\* a cycle ends in an error of mineOnce other than a transport error: the
\* solver failed, or the last response of the cycle was a challenge error
FailsOffTransport ==
  /\ pc # "sleep_backoff" /\ pc' = "sleep_backoff"
  /\ SolverFails \/ resp' # Nil

AcceptedWithoutNext ==
  /\ pc = "submit" /\ loc.req.ChallengeID # ""
  /\ pc' = "sleep_cooldown" /\ resp' # Nil /\ resp'[1].Error = ""
  /\ resp'[1].NextChallenge = Nil

\* C37: a challenge that was accepted is not submitted again: when the
\* request carrying challenge X is answered with success and no next
\* challenge, the cache, from which the next cycle takes the challenge of
\* its request, does not hold X afterwards.
AcceptedNotResubmitted ==
  [][AcceptedWithoutNext =>
       (state'.LastChallenge = Nil \/ state'.LastChallenge[1].ID # loc.req.ChallengeID)]_vars

\* total_submissions, challenges_passed, total_hits and total_reward
Counters(s) == <<s.TotalInscriptions, s.ChallengesPassed, s.TotalHits, s.TotalCWEarned>>

\* a submit call is answered with success: a response without an error code
\* whose target is not taken
SuccessAnswered ==
  /\ pc = "submit" /\ resp' # Nil
  /\ resp'[1].Error = "" /\ resp'[1].IDStatus # "taken"

\* C38: from a state with all counters zero, every step in which a submit
\* call is answered with success adds one to total_submissions and to
\* challenges_passed, one to total_hits if the response is a hit, and its
\* reward to total_reward, and no other step (a rate-limited, fatal, taken
\* or unhandled response, a transport failure, a sleep) changes any of the
\* four; so the first two are equal, total_hits is at most total_submissions,
\* and no counter decreases.
CounterInvariants ==
  /\ [](/\ state.TotalInscriptions = state.ChallengesPassed
        /\ state.TotalHits <= state.TotalInscriptions)
  /\ [][IF SuccessAnswered
        THEN Counters(state') =
               <<state.TotalInscriptions + 1, state.ChallengesPassed + 1,
                 state.TotalHits + (IF resp'[1].Hit THEN 1 ELSE 0),
                 state.TotalCWEarned + resp'[1].CWEarned>>
        ELSE Counters(state') = Counters(state)]_vars
  /\ [][\A k \in 1..4 : Counters(state')[k] >= Counters(state)[k]]_vars

\* two successes handled, one of them a hit, with rewards of 2500 and 0
WitCounterInvariants ==
  /\ pc = "sleep_cooldown"
  /\ Counters(state) = <<2, 2, 1, 2500>>

\* the system directories: the blocked prefixes that are rooted paths
SystemDirs ==
  { Elems(blockedPrefixes[k]) : k \in { n \in 1..Len(blockedPrefixes) :
                                          Head(blockedPrefixes[n]) = "/" } }

\* the path names a system directory or something below one
UnderBlockedPrefix(path) ==
  /\ path # <<>>
  /\ \E top \in SystemDirs : IsUnder(Elems(path), top)

\* a call of the tool was made in this step
FsCalled == fsys'.calls = fsys.calls + 1

\* a call that would change a system path: write, mkdir or delete of such a
\* path, or a move with such a source or destination
ChangesSystemPath(a) ==
  \/ a.operation \in {"write", "mkdir", "delete"} /\ UnderBlockedPrefix(a.path)
  \/ /\ a.operation = "move" /\ a.path # <<>> /\ a.dest # <<>>
     /\ UnderBlockedPrefix(a.path) \/ UnderBlockedPrefix(a.dest)

\* a call that looks at a system path that exists, and what it returns
LooksAtSystemPath(f, a, out) ==
  LET k == Elems(a.path) IN
  /\ a.operation = "read" /\ k \in DOMAIN f /\ ~f[k].dir /\ f[k].data.len > 0
       => out.kind = "content" /\ out.data.tag = f[k].data.tag
  /\ a.operation = "list" /\ IsDirAt(f, k) => out.kind = "listing"
  /\ a.operation = "info" /\ k \in DOMAIN f => out.kind = "info"

\* C32: write, mkdir and delete of a path under a blocked prefix, and a move
\* from or to such a path, return the 'not allowed' error and leave every
\* file and directory as it was; read, list and info of such a path are not
\* refused: they return the content, the listing, the metadata.
SystemPathsProtected ==
  [][FsCalled =>
       /\ ChangesSystemPath(fsys'.args) =>
            (fsys'.out = Err("not allowed") /\ fsys'.fs = fsys.fs)
       /\ (fsys'.args.operation \in {"read", "list", "info"}
             /\ UnderBlockedPrefix(fsys'.args.path)) =>
            /\ fsys'.out.why # "not allowed"
            /\ fsys'.fs = fsys.fs
            /\ LooksAtSystemPath(fsys.fs, fsys'.args, fsys'.out)]_vars

\* a file that exists is not moved below /etc: the call is refused
WitSystemPathsProtected ==
  /\ fsys.args.operation = "move"
  /\ ~UnderBlockedPrefix(fsys.args.path) /\ Elems(fsys.args.path) \in DOMAIN fsys.fs
  /\ UnderBlockedPrefix(fsys.args.dest)
  /\ fsys.out = Err("not allowed")

\* the content of the system file is read
WitSystemPathRead ==
  /\ fsys.args.operation = "read" /\ UnderBlockedPrefix(fsys.args.path)
  /\ fsys.out.kind = "content" /\ fsys.out.data = Content("sys", 1)

\* the last call was the given operation and it succeeded
Succeeded(op) == fsys.args.operation = op /\ fsys.out.kind = "ok"

\* a read that returns exactly the content c
ReadsExactly(out, c) == out.kind = "content" /\ out.data = c /\ ~out.more

\* C33: after a successful write of a content of at most 256 KB to a path
\* that is not blocked, a read of the path returns exactly that content and
\* info reports a file; after a successful delete a read of the path returns
\* an error; a read of a directory returns an error.
WriteReadDelete ==
  /\ (Succeeded("write") /\ fsys.args.content.len <= maxReadSize) =>
        /\ ReadsExactly(fsRead(fsys.fs, fsys.args.path), fsys.args.content)
        /\ fsInfo(fsys.fs, fsys.args.path).why = "file"
  /\ Succeeded("delete") => fsRead(fsys.fs, fsys.args.path).kind = "error"
  /\ \A p \in PathSamples \ {<<>>} :
        IsDirAt(fsys.fs, Elems(p)) => fsRead(fsys.fs, p).kind = "error"

\* C40: once DeleteSession(id) has returned, the chats directory holds no
\* file of session id until a session created afterwards takes that id,
\* whatever a Chat that began on the session does in the meantime.
DeletedStaysDeleted == \A id \in chat.gone : id \notin DOMAIN chat.files

====
